---- MODULE Spec2Model ----
(***************************************************************************)
(* Authorization-aware coordination logic of the groups, things and users  *)
(* services: every handler is one action that issues its calls to the      *)
(* policy engine, the repository and the cache in the order of the code,   *)
(* and records them in `last`.                                             *)
(***************************************************************************)
EXTENDS Integers, Sequences, FiniteSets, TLC

VARIABLES
    groups,     \* groups.Repository: group id -> persisted record
    policies,   \* relation tuples held by the policy engine
    nextID,     \* number of ids the IDProvider has handed out
    things,     \* things repository: client id -> persisted record
    users,      \* users repository: client id -> persisted record
    cache,      \* things identity cache: secret -> client id
    last,       \* the last handler run: op, inputs, calls issued, error, result
    page,       \* the page of groups handed to tree assembly
    tree,       \* the response tree assembly built from the page
    inflight,   \* the Identify calls in progress, one per caller
    roles,      \* the roles held by the wrapped RoleManager, by role name
    events      \* the events handed to the Publisher, in order

vars == <<groups, policies, nextID, things, users, cache, last, page, tree,
          inflight, roles, events>>

(* ------------------------------ bounds -------------------------------- *)
MaxGroups == 1      \* ids the IDProvider hands out
MaxMembers == 2     \* length of a memberIDs argument
MaxPolicies == 2    \* length of a list answer of the policy engine

(* ------------------- constants of internal/groups ---------------------- *)
ownerRelation == "owner"
groupRelation == "group"
parentGroupRelation == "parent_group"

usersKind == "users"
groupsKind == "groups"
thingsKind == "things"
channelsKind == "channels"

userType == "user"
groupType == "group"
thingType == "thing"

editPermission == "edit"
viewPermission == "view"
deletePermission == "delete"

tokenKind == "token"

EnabledStatus == "enabled"
DisabledStatus == "disabled"
AllStatus == "all"

(* ------------------------------ errors --------------------------------- *)
\* An error is the chain of its messages, outermost first; nil is <<>>.
NoErr == <<>>
errParentUnAuthz == <<"failed to authorize parent group">>
ErrAuthorization == <<"ErrAuthorization">>
ErrAuthentication == <<"ErrAuthentication">>
ErrInvalidStatus == <<"ErrInvalidStatus">>
ErrStatusAlreadyAssigned == <<"ErrStatusAlreadyAssigned">>
ErrNotFound == <<"ErrNotFound">>
ErrEnableClient == <<"ErrEnableClient">>
ErrDisableClient == <<"ErrDisableClient">>
errInvalidMemberKindList == <<"invalid member_kind">>
errInvalidMemberKind == <<"invalid member kind">>
errAddPolicies == <<"failed to add policies : %w">>
errDeletePolicies == <<"failed to delete policies : %w">>
\* errors produced by the collaborators themselves
ErrTransport == <<"transport">>
ErrRepository == <<"repository">>
ErrIDProvider == <<"idprovider">>
ErrHasher == <<"hasher">>
\* errors of the users service
ErrMissingSecret == <<"ErrMissingSecret">>
ErrInvalidRole == <<"ErrInvalidRole">>
ErrMalformedEntity == <<"ErrMalformedEntity">>
ErrPasswordFormat == <<"password does not meet the requirements">>
ErrLogin == <<"ErrLogin">>

\* errors.Wrap(wrapper, err): wrapper on top of err
Wrap(wrapper, err) == wrapper \o err

\* errors.Contains(e1, e2): e2's message is in the chain of e1
Contains(e1, e2) == \E i \in 1..Len(e1) : e1[i] = e2[1]

(* --------------------------- small universes --------------------------- *)
Tokens == {"t1"}            \* callers of the groups service
ClientTokens == {"t1", "t2"} \* callers of the users service
EditTokens == {"t1"}          \* callers of the things service

\* the identity the policy engine resolves a token to
Identity(token) == IF token = "t1" THEN "u1" ELSE "u2"

\* "g0" is a group persisted before the run; the service never reads a parent
ParentIDs == {"", "g0"}

GroupID(n) == IF n = 1 THEN "g1" ELSE IF n = 2 THEN "g2" ELSE
              IF n = 3 THEN "g3" ELSE "g4"
AllGroupIDs == {GroupID(n) : n \in 1..(MaxGroups + 1)}

\* sequences over S of length at most n
RECURSIVE SeqsUpTo(_, _)
SeqsUpTo(S, n) ==
    IF n = 0 THEN {<<>>}
    ELSE LET shorter == SeqsUpTo(S, n - 1)
         IN  shorter \cup {Append(q, x) : q \in {r \in shorter : Len(r) = n - 1}, x \in S}

Range(q) == {q[i] : i \in 1..Len(q)}

\* a call issued: its request, whether it succeeded, and what was answered
Call(fn, req, ok) == [fn |-> fn, req |-> req, ok |-> ok, res |-> <<>>]
CallRes(fn, req, ok, res) ==
    [fn |-> fn, req |-> req, ok |-> ok, res |-> IF ok THEN res ELSE <<>>]

Tuple(st, s, rel, ot, o) ==
    [subjType |-> st, subj |-> s, rel |-> rel, objType |-> ot, obj |-> o]

\* what a handler leaves behind
Ret(gs, ps, n, calls, err, out) ==
    [groups |-> gs, policies |-> ps, nextID |-> n, calls |-> calls,
     err |-> err, out |-> out]

\* a handler that wrote nothing
Fail(calls, err) == Ret(groups, policies, nextID, calls, err, "")

NoGroup == [owner |-> "", parent |-> "", status |-> "", name |-> ""]

\* the first call of a handler that fails, if any: handlers stop at it
authzOutcome(fault) ==
    IF fault = "authzDenied" THEN "denied"
    ELSE IF fault = "authzFail" THEN "fail" ELSE "granted"

(* ---------------------- service.identify / authorize ------------------- *)
identifyCall(token, ok) == Call("Identify", [token |-> token], ok)

authorizeReq(subjectType, subject, permission, objectType, object) ==
    [subjType |-> subjectType, subjKind |-> tokenKind, subj |-> subject,
     perm |-> permission, objType |-> objectType, obj |-> object]

\* variant: the answer of the policy engine is dropped
authorizeErrDropped(outcome) == NoErr

authorizeErr(outcome) ==
    IF outcome = "fail" THEN Wrap(ErrAuthorization, ErrTransport)
    ELSE IF outcome = "denied" THEN ErrAuthorization
    ELSE NoErr

\* service.authorize: the call issued, the error and the resolved id
authorize(subjectType, subject, permission, objectType, object, outcome) ==
    [call |-> [fn |-> "Authorize",
               req |-> authorizeReq(subjectType, subject, permission, objectType,
                                    object),
               ok |-> outcome = "granted", res |-> outcome],
     err |-> authorizeErr(outcome),
     id |-> IF outcome = "granted" THEN Identity(subject) ELSE ""]

(* ------------------------- groups.Repository --------------------------- *)
repoHas(id) == id \in DOMAIN groups /\ groups[id] # NoGroup

repoSave(g) ==
    [groups EXCEPT ![g.id] = [owner |-> g.owner, parent |-> g.parent,
                              status |-> g.status, name |-> g.name]]

repoChangeStatus(g) == [groups EXCEPT ![g.id].status = g.status]

repoUpdate(g) == [groups EXCEPT ![g.id].name = g.name]

(* --------------------------- service.CreateGroup ----------------------- *)
\* variant: every status passes
validStatusAny(status) == TRUE

\* line 83: the status check
validStatus(status) == status = EnabledStatus \/ status = DisabledStatus

\* line 86: the owner defaults to the resolved identity
\* variant: the caller always becomes the owner
defaultOwnerCaller(owner, ownerID) == ownerID

defaultOwner(owner, ownerID) == IF owner = "" THEN ownerID ELSE owner

\* variant: the parent is never authorized
needsParentAuthzNever(g) == FALSE

\* line 93: the parent is authorized only when one is set
needsParentAuthz(g) == g.parent # ""

\* lines 105-111: the ownership tuple
ownerPolicy(ownerID, g) ==
    Tuple(userType, ownerID, ownerRelation, groupType, g.id)

\* lines 117-123: the parent-linkage tuple
parentPolicy(g) ==
    Tuple(groupType, g.parent, parentGroupRelation, groupType, g.id)

\* variant: the error of the refused authorize is returned as it is
parentAuthzErrUnwrapped(err) == err

\* lines 95-97: the error of a refused parent
parentAuthzErr(err) == Wrap(errParentUnAuthz, err)

\* variant: a failed tuple write undoes the Save and the tuple before it
createPersistRollback(ownerID, g, fault, calls, n) ==
    LET cSave == Call("Save", g, fault # "save")
        cOwner == Call("AddPolicy", ownerPolicy(ownerID, g), fault # "addOwner")
        cParent == Call("AddPolicy", parentPolicy(g), fault # "addParent")
        saved == repoSave(g)
        withOwner == policies \cup {ownerPolicy(ownerID, g)}
    IN  IF fault = "save"
        THEN Ret(groups, policies, n, calls \o <<cSave>>, ErrRepository, "")
        ELSE IF fault = "addOwner"
        THEN Ret(groups, policies, n, calls \o <<cSave, cOwner>>, ErrTransport, "")
        ELSE IF g.parent = ""
        THEN Ret(saved, withOwner, n, calls \o <<cSave, cOwner>>, NoErr, g)
        ELSE IF fault = "addParent"
        THEN Ret(groups, policies, n, calls \o <<cSave, cOwner, cParent>>,
                 ErrTransport, "")
        ELSE Ret(saved, withOwner \cup {parentPolicy(g)}, n,
                 calls \o <<cSave, cOwner, cParent>>, NoErr, g)

\* lines 100-129: Save and the two tuple writes
createPersist(ownerID, g, fault, calls, n) ==
    LET cSave == Call("Save", g, fault # "save")
        cOwner == Call("AddPolicy", ownerPolicy(ownerID, g), fault # "addOwner")
        cParent == Call("AddPolicy", parentPolicy(g), fault # "addParent")
        saved == repoSave(g)
        withOwner == policies \cup {ownerPolicy(ownerID, g)}
    IN  IF fault = "save"
        THEN Ret(groups, policies, n, calls \o <<cSave>>, ErrRepository, "")
        ELSE IF fault = "addOwner"
        THEN Ret(saved, policies, n, calls \o <<cSave, cOwner>>, ErrTransport, "")
        ELSE IF g.parent = ""
        THEN Ret(saved, withOwner, n, calls \o <<cSave, cOwner>>, NoErr, g)
        ELSE IF fault = "addParent"
        THEN Ret(saved, withOwner, n, calls \o <<cSave, cOwner, cParent>>,
                 ErrTransport, "")
        ELSE Ret(saved, withOwner \cup {parentPolicy(g)}, n,
                 calls \o <<cSave, cOwner, cParent>>, NoErr, g)

CreateGroup(token, gin, fault) ==
    LET cId == identifyCall(token, fault # "identify")
        ownerID == Identity(token)
        n == nextID + 1
        g == [id |-> GroupID(n), owner |-> defaultOwner(gin.owner, ownerID),
              parent |-> gin.parent, status |-> gin.status, name |-> gin.name]
        az == authorize(userType, token, editPermission, groupType, g.parent,
                        authzOutcome(fault))
    IN  IF fault = "identify"
        THEN Fail(<<cId>>, ErrAuthentication)
        ELSE IF fault = "id"
        THEN Fail(<<cId>>, ErrIDProvider)
        ELSE IF ~validStatus(gin.status)
        THEN Ret(groups, policies, n, <<cId>>, ErrInvalidStatus, "")
        ELSE IF needsParentAuthz(g)
        THEN IF az.err # NoErr
             THEN Ret(groups, policies, n, <<cId, az.call>>,
                      parentAuthzErr(az.err), "")
             ELSE createPersist(ownerID, g, fault, <<cId, az.call>>, n)
        ELSE createPersist(ownerID, g, fault, <<cId>>, n)

\* the group handed in may carry an id of the caller's choosing
GivenGroupIDs == {"", "g9"}
CreateInputs ==
    [id : GivenGroupIDs, owner : {"", "u2"}, parent : ParentIDs,
     status : {EnabledStatus, DisabledStatus, AllStatus}, name : {""}]

CreateFaults ==
    {"none", "identify", "id", "authzDenied", "authzFail", "save", "addOwner",
     "addParent"}

(* ----------------------- service.ViewGroup / UpdateGroup --------------- *)
\* variant: the group viewed is written back with the viewer stamped on it
ViewGroupStamped(token, id, fault) ==
    LET az == authorize(userType, token, viewPermission, groupType, id,
                        authzOutcome(fault))
        cGet == Call("RetrieveByID", id, fault # "retrieve" /\ repoHas(id))
        seen == [id |-> id, name |-> az.id]
        cUpd == Call("Update", seen, TRUE)
    IN  IF az.err # NoErr THEN Fail(<<az.call>>, az.err)
        ELSE IF fault = "retrieve" THEN Fail(<<az.call, cGet>>, ErrRepository)
        ELSE IF ~repoHas(id) THEN Fail(<<az.call, cGet>>, ErrNotFound)
        ELSE Ret(repoUpdate(seen), policies, nextID, <<az.call, cGet, cUpd>>,
                 NoErr, [id |-> id] @@ groups[id])

ViewGroup(token, id, fault) ==
    LET az == authorize(userType, token, viewPermission, groupType, id,
                        authzOutcome(fault))
        cGet == Call("RetrieveByID", id, fault # "retrieve" /\ repoHas(id))
    IN  IF az.err # NoErr THEN Fail(<<az.call>>, az.err)
        ELSE IF fault = "retrieve" THEN Fail(<<az.call, cGet>>, ErrRepository)
        ELSE IF ~repoHas(id) THEN Fail(<<az.call, cGet>>, ErrNotFound)
        ELSE Ret(groups, policies, nextID, <<az.call, cGet>>, NoErr,
                 [id |-> id] @@ groups[id])

\* variant: the grant of the previous call of the same caller is reused
UpdateGroupGrantReused(token, g, fault) ==
    LET reuse == /\ last.op = "UpdateGroup"
                 /\ last.in.token = token
                 /\ last.in.id = g.id
                 /\ last.err = NoErr
        az == authorize(userType, token, editPermission, groupType, g.id,
                        IF reuse THEN "granted" ELSE authzOutcome(fault))
        asked == IF reuse THEN <<>> ELSE <<az.call>>
        upd == [id |-> g.id, name |-> g.name, parent |-> g.parent,
                owner |-> g.owner, updatedBy |-> az.id]
        cUpd == Call("Update", upd, fault # "update" /\ repoHas(g.id))
    IN  IF az.err # NoErr THEN Fail(asked, az.err)
        ELSE IF fault = "update" THEN Fail(asked \o <<cUpd>>, ErrRepository)
        ELSE IF ~repoHas(g.id) THEN Fail(asked \o <<cUpd>>, ErrNotFound)
        ELSE Ret(repoUpdate(g), policies, nextID, asked \o <<cUpd>>, NoErr,
                 [id |-> g.id] @@ repoUpdate(g)[g.id])

\* variant: the group the caller passed is stored whole
UpdateGroupStoredWhole(token, g, fault) ==
    LET az == authorize(userType, token, editPermission, groupType, g.id,
                        authzOutcome(fault))
        upd == [id |-> g.id, name |-> g.name, parent |-> g.parent,
                owner |-> g.owner, updatedBy |-> az.id]
        cUpd == Call("Update", upd, fault # "update" /\ repoHas(g.id))
        whole == [groups EXCEPT ![g.id].name = g.name,
                                ![g.id].parent = g.parent,
                                ![g.id].owner = g.owner]
    IN  IF az.err # NoErr THEN Fail(<<az.call>>, az.err)
        ELSE IF fault = "update" THEN Fail(<<az.call, cUpd>>, ErrRepository)
        ELSE IF ~repoHas(g.id) THEN Fail(<<az.call, cUpd>>, ErrNotFound)
        ELSE Ret(whole, policies, nextID, <<az.call, cUpd>>, NoErr,
                 [id |-> g.id] @@ whole[g.id])

UpdateGroup(token, g, fault) ==
    LET az == authorize(userType, token, editPermission, groupType, g.id,
                        authzOutcome(fault))
        upd == [id |-> g.id, name |-> g.name, parent |-> g.parent,
                owner |-> g.owner, updatedBy |-> az.id]
        cUpd == Call("Update", upd, fault # "update" /\ repoHas(g.id))
    IN  IF az.err # NoErr THEN Fail(<<az.call>>, az.err)
        ELSE IF fault = "update" THEN Fail(<<az.call, cUpd>>, ErrRepository)
        ELSE IF ~repoHas(g.id) THEN Fail(<<az.call, cUpd>>, ErrNotFound)
        ELSE Ret(repoUpdate(g), policies, nextID, <<az.call, cUpd>>, NoErr,
                 [id |-> g.id] @@ repoUpdate(g)[g.id])

ReadFaults == {"none", "authzDenied", "authzFail", "retrieve"}
UpdateFaults == {"none", "authzDenied", "authzFail", "update"}
GroupNames == {"n"}

\* part_000 lines 54-59: the group the endpoint builds carries no parent and
\* no owner; a caller of the service may pass both
UpdateGroupEndpoint(id, name) ==
    [id |-> id, name |-> name, parent |-> "", owner |-> ""]
UpdateGroupValues(id, name) ==
    {UpdateGroupEndpoint(id, name),
     [id |-> id, name |-> name, parent |-> "g2", owner |-> "u2"]}

(* ------------- service.EnableGroup / DisableGroup / changeGroupStatus -- *)
\* variant: the stored status is never compared
sameStatusNever(dbStatus, status) == FALSE

\* line 402: the requested status is the one the record has
sameStatus(dbStatus, status) == dbStatus = status

\* variant: the stored status is not looked at
changeGroupStatusUncompared(token, group, fault) ==
    LET az == authorize(userType, token, editPermission, groupType, group.id,
                        authzOutcome(fault))
        cGet == Call("RetrieveByID", group.id,
                     fault # "retrieve" /\ repoHas(group.id))
        chg == [id |-> group.id, status |-> group.status, updatedBy |-> az.id]
        cChg == Call("ChangeStatus", chg, fault # "change")
    IN  IF az.err # NoErr THEN Fail(<<az.call>>, az.err)
        ELSE IF fault = "retrieve" THEN Fail(<<az.call, cGet>>, ErrRepository)
        ELSE IF ~repoHas(group.id) THEN Fail(<<az.call, cGet>>, ErrNotFound)
        ELSE IF fault = "change" THEN Fail(<<az.call, cGet, cChg>>, ErrRepository)
        ELSE Ret(repoChangeStatus(chg), policies, nextID,
                 <<az.call, cGet, cChg>>, NoErr,
                 [id |-> group.id] @@ repoChangeStatus(chg)[group.id])

changeGroupStatus(token, group, fault) ==
    LET az == authorize(userType, token, editPermission, groupType, group.id,
                        authzOutcome(fault))
        cGet == Call("RetrieveByID", group.id,
                     fault # "retrieve" /\ repoHas(group.id))
        chg == [id |-> group.id, status |-> group.status, updatedBy |-> az.id]
        cChg == Call("ChangeStatus", chg, fault # "change")
    IN  IF az.err # NoErr THEN Fail(<<az.call>>, az.err)
        ELSE IF fault = "retrieve" THEN Fail(<<az.call, cGet>>, ErrRepository)
        ELSE IF ~repoHas(group.id) THEN Fail(<<az.call, cGet>>, ErrNotFound)
        ELSE IF sameStatus(groups[group.id].status, group.status)
        THEN Fail(<<az.call, cGet>>, ErrStatusAlreadyAssigned)
        ELSE IF fault = "change" THEN Fail(<<az.call, cGet, cChg>>, ErrRepository)
        ELSE Ret(repoChangeStatus(chg), policies, nextID,
                 <<az.call, cGet, cChg>>, NoErr,
                 [id |-> group.id] @@ repoChangeStatus(chg)[group.id])

EnableGroup(token, id, fault) ==
    changeGroupStatus(token, [id |-> id, status |-> EnabledStatus], fault)

DisableGroup(token, id, fault) ==
    changeGroupStatus(token, [id |-> id, status |-> DisabledStatus], fault)

StatusFaults == {"none", "authzDenied", "authzFail", "retrieve", "change"}

\* the group ids callers name
NamedGroupIDs == {"g1", "g2"}

(* ---------------------------- service.ListGroups ----------------------- *)
\* lines 170-176: for every cid, every allowed id equal to it, in that order
RECURSIVE intersect(_, _)
intersect(cids, allowed) ==
    IF cids = <<>> THEN <<>>
    ELSE SelectSeq(allowed, LAMBDA id : id = Head(cids))
         \o intersect(Tail(cids), allowed)

\* variant: for "things" the groups of the thing, not intersected
candidateIDsOfThing(memberKind, cids, allowed) ==
    IF memberKind = thingsKind THEN cids ELSE allowed

\* lines 159-179: the candidate ids
candidateIDs(memberKind, cids, allowed) ==
    IF memberKind = thingsKind THEN intersect(cids, allowed) ELSE allowed

listObjectsReq(subjectType, subject, relation, permission, objectType) ==
    [subjType |-> subjectType, subj |-> subject, rel |-> relation,
     perm |-> permission, objType |-> objectType]

listSubjectsReq(subjectType, relation, permission, objectType, object) ==
    [subjType |-> subjectType, rel |-> relation, perm |-> permission,
     objType |-> objectType, obj |-> object]

\* groups.Repository.RetrieveByIDs: the persisted groups among ids
repoRetrieveByIDs(ids) == {id \in Range(ids) : repoHas(id)}

ListGroups(token, memberKind, memberID, allowed, cids, fault) ==
    LET cId == identifyCall(token, fault # "identify")
        userID == Identity(token)
        cObj == CallRes("ListAllObjects",
                        listObjectsReq(userType, userID, "", viewPermission, groupType),
                        fault # "listObjects", allowed)
        cSub == CallRes("ListAllSubjects",
                        listSubjectsReq(groupType, "", viewPermission, thingType,
                                        memberID),
                        fault # "listSubjects", cids)
        ids == candidateIDs(memberKind, cids, allowed)
        cGet == Call("RetrieveByIDs", ids, fault # "retrieve")
        listed == IF memberKind = thingsKind THEN <<cId, cObj, cSub>>
                  ELSE <<cId, cObj>>
    IN  IF fault = "identify" THEN Fail(<<cId>>, ErrAuthentication)
        ELSE IF fault = "listObjects" THEN Fail(<<cId, cObj>>, ErrTransport)
        ELSE IF memberKind = thingsKind /\ fault = "listSubjects"
        THEN Fail(<<cId, cObj, cSub>>, ErrTransport)
        ELSE IF fault = "retrieve" THEN Fail(listed \o <<cGet>>, ErrRepository)
        ELSE Ret(groups, policies, nextID, listed \o <<cGet>>, NoErr,
                 repoRetrieveByIDs(ids))

\* the group ids the policy engine answers with
EngineGroupIDs == {"g1", "g2", "g3"}
GroupAnswers == SeqsUpTo(EngineGroupIDs, MaxPolicies)
\* the answers drawn when the repository call after them fails
ShortGroupAnswers == SeqsUpTo(EngineGroupIDs, 1)
ListGroupsFaults == {"none", "identify", "listObjects", "listSubjects", "retrieve"}
ThingIDs == {"th1"}

(* ---------------------------- service.ListMembers ---------------------- *)
\* lines 201-214 and 226-239: the page of the members the engine listed
RECURSIVE membersOf(_, _)
membersOf(ids, type) ==
    IF ids = <<>> THEN <<>>
    ELSE <<[id |-> Head(ids), type |-> type]>> \o membersOf(Tail(ids), type)

membersPage(members) ==
    [total |-> Len(members), offset |-> 0, limit |-> Len(members),
     members |-> members]

\* lines 191-196: the query for the things of a group
thingsOfGroupReq(groupID, permission) ==
    listObjectsReq(groupType, groupID, groupRelation, "", thingType)

\* variant: the users are queried by the view permission
usersOfGroupReqView(groupID, permission) ==
    listSubjectsReq(userType, "", viewPermission, groupType, groupID)

\* lines 216-221: the query for the users of a group
usersOfGroupReq(groupID, permission) ==
    listSubjectsReq(userType, "", permission, groupType, groupID)

\* line 185: the permission ListMembers asks for
listMembersAuthz(token, groupID, outcome) ==
    authorize(userType, token, viewPermission, groupType, groupID, outcome)

\* variant: the members are listed whatever authorize answered
ListMembersUnchecked(token, groupID, permission, memberKind, answer, fault) ==
    LET az == listMembersAuthz(token, groupID, authzOutcome(fault))
        cObj == CallRes("ListAllObjects", thingsOfGroupReq(groupID, permission),
                        fault # "list", answer)
        cSub == CallRes("ListAllSubjects", usersOfGroupReq(groupID, permission),
                        fault # "list", answer)
    IN  IF memberKind = thingsKind
        THEN IF fault = "list" THEN Fail(<<az.call, cObj>>, ErrTransport)
             ELSE Ret(groups, policies, nextID, <<az.call, cObj>>, NoErr,
                      membersPage(membersOf(answer, thingType)))
        ELSE IF memberKind = usersKind
        THEN IF fault = "list" THEN Fail(<<az.call, cSub>>, ErrTransport)
             ELSE Ret(groups, policies, nextID, <<az.call, cSub>>, NoErr,
                      membersPage(membersOf(answer, userType)))
        ELSE Fail(<<az.call>>, errInvalidMemberKindList)

ListMembers(token, groupID, permission, memberKind, answer, fault) ==
    LET az == listMembersAuthz(token, groupID, authzOutcome(fault))
        cObj == CallRes("ListAllObjects", thingsOfGroupReq(groupID, permission),
                        fault # "list", answer)
        cSub == CallRes("ListAllSubjects", usersOfGroupReq(groupID, permission),
                        fault # "list", answer)
    IN  IF az.err # NoErr THEN Fail(<<az.call>>, az.err)
        ELSE IF memberKind = thingsKind
        THEN IF fault = "list" THEN Fail(<<az.call, cObj>>, ErrTransport)
             ELSE Ret(groups, policies, nextID, <<az.call, cObj>>, NoErr,
                      membersPage(membersOf(answer, thingType)))
        ELSE IF memberKind = usersKind
        THEN IF fault = "list" THEN Fail(<<az.call, cSub>>, ErrTransport)
             ELSE Ret(groups, policies, nextID, <<az.call, cSub>>, NoErr,
                      membersPage(membersOf(answer, userType)))
        ELSE Fail(<<az.call>>, errInvalidMemberKindList)

MemberIDs == {"m1", "m2"}
MemberAnswers == SeqsUpTo(MemberIDs, MaxPolicies)
ListMembersFaults == {"none", "authzDenied", "authzFail", "list"}
MemberKinds == {thingsKind, groupsKind, usersKind, channelsKind}
Permissions == {viewPermission, editPermission}

(* ------------------------- service.Assign / Unassign ------------------- *)
\* variant: the member is the subject for every kind
assignPolicyMemberSubject(memberKind, groupID, relation, memberID) ==
    IF memberKind = thingsKind
    THEN Tuple(thingType, memberID, relation, groupType, groupID)
    ELSE IF memberKind = groupsKind
    THEN Tuple(groupType, memberID, relation, groupType, groupID)
    ELSE Tuple(userType, memberID, relation, groupType, groupID)

\* lines 295-328: the tuple written for one member
assignPolicy(memberKind, groupID, relation, memberID) ==
    IF memberKind = thingsKind
    THEN Tuple(groupType, groupID, relation, thingType, memberID)
    ELSE IF memberKind = groupsKind
    THEN Tuple(groupType, memberID, relation, groupType, groupID)
    ELSE Tuple(userType, memberID, relation, groupType, groupID)

\* variant: a thing is deleted as the subject of a tuple on the group
unassignPolicyThingSubject(memberKind, groupID, relation, memberID) ==
    IF memberKind = groupsKind
    THEN Tuple(groupType, memberID, relation, groupType, groupID)
    ELSE IF memberKind = usersKind
    THEN Tuple(userType, memberID, relation, groupType, groupID)
    ELSE Tuple(thingType, memberID, relation, groupType, groupID)

\* lines 347-380: the tuple deleted for one member
unassignPolicy(memberKind, groupID, relation, memberID) ==
    IF memberKind = thingsKind
    THEN Tuple(groupType, groupID, relation, thingType, memberID)
    ELSE IF memberKind = groupsKind
    THEN Tuple(groupType, memberID, relation, groupType, groupID)
    ELSE Tuple(userType, memberID, relation, groupType, groupID)

\* the kinds the switch of Assign and Unassign knows
knownKind(memberKind) == memberKind \in {thingsKind, groupsKind, usersKind}

RECURSIVE assignPolicies(_, _, _, _)
assignPolicies(memberKind, groupID, relation, memberIDs) ==
    IF memberIDs = <<>> THEN <<>>
    ELSE <<assignPolicy(memberKind, groupID, relation, Head(memberIDs))>>
         \o assignPolicies(memberKind, groupID, relation, Tail(memberIDs))

RECURSIVE unassignPolicies(_, _, _, _)
unassignPolicies(memberKind, groupID, relation, memberIDs) ==
    IF memberIDs = <<>> THEN <<>>
    ELSE <<unassignPolicy(memberKind, groupID, relation, Head(memberIDs))>>
         \o unassignPolicies(memberKind, groupID, relation, Tail(memberIDs))

\* variant: the loop goes on after a failing call
policyCallsAll(fn, prs, at) ==
    [i \in 1..Len(prs) |-> Call(fn, prs[i], i # at)]

\* the calls of a loop over prs that fails at its at-th call (0: never)
policyCalls(fn, prs, at) ==
    [i \in 1..(IF at \in 1..Len(prs) THEN at ELSE Len(prs)) |->
        Call(fn, prs[i], i # at)]

\* the tuples of the calls that succeeded
done(prs, at) ==
    {prs[i] : i \in 1..(IF at \in 1..Len(prs) THEN at - 1 ELSE Len(prs))}

\* lines 285 and 340: the permission Assign and Unassign ask for
assignAuthz(token, groupID, outcome) ==
    authorize(userType, token, editPermission, groupType, groupID, outcome)

Assign(token, groupID, relation, memberKind, memberIDs, fault, at) ==
    LET az == assignAuthz(token, groupID, authzOutcome(fault))
        prs == assignPolicies(memberKind, groupID, relation, memberIDs)
    IN  IF az.err # NoErr THEN Fail(<<az.call>>, az.err)
        ELSE IF ~knownKind(memberKind)
        THEN Fail(<<az.call>>, errInvalidMemberKind)
        ELSE Ret(groups, policies \cup done(prs, at), nextID,
                 <<az.call>> \o policyCalls("AddPolicy", prs, at),
                 IF at \in 1..Len(prs) THEN Wrap(errAddPolicies, ErrTransport)
                 ELSE NoErr, "")

Unassign(token, groupID, relation, memberKind, memberIDs, fault, at) ==
    LET az == assignAuthz(token, groupID, authzOutcome(fault))
        prs == unassignPolicies(memberKind, groupID, relation, memberIDs)
    IN  IF az.err # NoErr THEN Fail(<<az.call>>, az.err)
        ELSE IF ~knownKind(memberKind)
        THEN Fail(<<az.call>>, errInvalidMemberKind)
        ELSE Ret(groups, policies \ done(prs, at), nextID,
                 <<az.call>> \o policyCalls("DeletePolicy", prs, at),
                 IF at \in 1..Len(prs) THEN Wrap(errDeletePolicies, ErrTransport)
                 ELSE NoErr, "")

\* a list with a member before and a member after its second member
LongMemberList == <<"m1", "m2", "m1">>
MemberLists == SeqsUpTo(MemberIDs, MaxMembers) \cup {LongMemberList}
AssignFaults == {"none", "authzDenied", "authzFail"}
Relations == {"viewer"}
AssignGroupIDs == {"g1"}

(* ------------------------ things: service.authorize --------------------- *)
thingsAuthorizeReq(subjectType, subject, permission, objectType, object) ==
    [subjType |-> subjectType, subj |-> subject, perm |-> permission,
     objType |-> objectType, obj |-> object]

thingsAuthorize(subjectType, subject, permission, objectType, object, outcome) ==
    [call |-> [fn |-> "Authorize",
               req |-> thingsAuthorizeReq(subjectType, subject, permission,
                                          objectType, object),
               ok |-> outcome = "granted", res |-> outcome],
     err |-> authorizeErr(outcome)]

\* what a handler of the things or users service leaves behind
CRet(ts, us, c, calls, err, out) ==
    [things |-> ts, users |-> us, cache |-> c, calls |-> calls, err |-> err,
     out |-> out]

CFail(calls, err) == CRet(things, users, cache, calls, err, "")

ErrCache == <<"cache">>

(* --------------------- things repository and cache --------------------- *)
thingsHas(id) == id \in DOMAIN things

thingsChangeStatus(c) == [things EXCEPT ![c.id].status = c.status]

\* clients with the secret
thingsBySecret(key) == {id \in DOMAIN things : things[id].secret = key}

cacheHit(key) == key \in DOMAIN cache

cacheSave(key, id) ==
    [k \in DOMAIN cache \cup {key} |-> IF k = key THEN id ELSE cache[k]]

cacheRemove(id) ==
    [k \in {x \in DOMAIN cache : cache[x] # id} |-> cache[k]]

(* ----- things: EnableClient / DisableClient / changeClientStatus -------- *)
\* variant: the status change asks for the edit permission
thingsChangeClientStatusEdit(token, client, fault) ==
    LET cId == identifyCall(token, fault # "identify")
        userID == Identity(token)
        az == thingsAuthorize(userType, userID, editPermission, thingType,
                              client.id, authzOutcome(fault))
        cGet == Call("RetrieveByID", client.id,
                     fault # "retrieve" /\ thingsHas(client.id))
        chg == [id |-> client.id, status |-> client.status, updatedBy |-> userID]
        cChg == Call("ChangeStatus", chg, fault # "change")
    IN  IF fault = "identify" THEN CFail(<<cId>>, ErrAuthentication)
        ELSE IF az.err # NoErr THEN CFail(<<cId, az.call>>, az.err)
        ELSE IF fault = "retrieve"
        THEN CFail(<<cId, az.call, cGet>>, ErrRepository)
        ELSE IF ~thingsHas(client.id)
        THEN CFail(<<cId, az.call, cGet>>, ErrNotFound)
        ELSE IF sameStatus(things[client.id].status, client.status)
        THEN CFail(<<cId, az.call, cGet>>, ErrStatusAlreadyAssigned)
        ELSE IF fault = "change"
        THEN CFail(<<cId, az.call, cGet, cChg>>, ErrRepository)
        ELSE CRet(thingsChangeStatus(chg), users, cache,
                  <<cId, az.call, cGet, cChg>>, NoErr, chg)

thingsChangeClientStatus(token, client, fault) ==
    LET cId == identifyCall(token, fault # "identify")
        userID == Identity(token)
        az == thingsAuthorize(userType, userID, deletePermission, thingType,
                              client.id, authzOutcome(fault))
        cGet == Call("RetrieveByID", client.id,
                     fault # "retrieve" /\ thingsHas(client.id))
        chg == [id |-> client.id, status |-> client.status, updatedBy |-> userID]
        cChg == Call("ChangeStatus", chg, fault # "change")
    IN  IF fault = "identify" THEN CFail(<<cId>>, ErrAuthentication)
        ELSE IF az.err # NoErr THEN CFail(<<cId, az.call>>, az.err)
        ELSE IF fault = "retrieve"
        THEN CFail(<<cId, az.call, cGet>>, ErrRepository)
        ELSE IF ~thingsHas(client.id)
        THEN CFail(<<cId, az.call, cGet>>, ErrNotFound)
        ELSE IF sameStatus(things[client.id].status, client.status)
        THEN CFail(<<cId, az.call, cGet>>, ErrStatusAlreadyAssigned)
        ELSE IF fault = "change"
        THEN CFail(<<cId, az.call, cGet, cChg>>, ErrRepository)
        ELSE CRet(thingsChangeStatus(chg), users, cache,
                  <<cId, az.call, cGet, cChg>>, NoErr, chg)

\* variant: a successful enable removes the entries of the client as well
ThingsEnableClientEvict(token, id, fault) ==
    LET r == thingsChangeClientStatus(token,
                 [id |-> id, status |-> EnabledStatus], fault)
    IN  IF r.err # NoErr THEN [r EXCEPT !.err = Wrap(ErrEnableClient, r.err)]
        ELSE [r EXCEPT !.calls = r.calls \o <<Call("Remove", id, TRUE)>>,
                       !.cache = cacheRemove(id)]

ThingsEnableClient(token, id, fault) ==
    LET r == thingsChangeClientStatus(token,
                 [id |-> id, status |-> EnabledStatus], fault)
    IN  IF r.err # NoErr THEN [r EXCEPT !.err = Wrap(ErrEnableClient, r.err)]
        ELSE r

\* variant: a failed removal puts the former status back
ThingsDisableClientRollback(token, id, fault) ==
    LET r == thingsChangeClientStatus(token,
                 [id |-> id, status |-> DisabledStatus], fault)
        cRem == Call("Remove", r.out.id, fault # "remove")
    IN  IF r.err # NoErr THEN [r EXCEPT !.err = Wrap(ErrDisableClient, r.err)]
        ELSE IF fault = "remove"
        THEN [r EXCEPT !.calls = r.calls \o <<cRem>>, !.err = ErrCache,
                       !.things = things]
        ELSE [r EXCEPT !.calls = r.calls \o <<cRem>>,
                       !.cache = cacheRemove(r.out.id)]

\* lines 416-432: the status change, then the removal of the cache entries
ThingsDisableClient(token, id, fault) ==
    LET r == thingsChangeClientStatus(token,
                 [id |-> id, status |-> DisabledStatus], fault)
        cRem == Call("Remove", r.out.id, fault # "remove")
    IN  IF r.err # NoErr THEN [r EXCEPT !.err = Wrap(ErrDisableClient, r.err)]
        ELSE IF fault = "remove"
        THEN [r EXCEPT !.calls = r.calls \o <<cRem>>, !.err = ErrCache]
        ELSE [r EXCEPT !.calls = r.calls \o <<cRem>>,
                       !.cache = cacheRemove(r.out.id)]

(* ------- things: CreateThings and the Update handlers ------------------ *)
\* ids the provider hands out in one run
MaxProvided == 2
\* the ids and keys the IDProvider hands out, the n-th being fresh
ProvidedID(n) == "p" \o ToString(n)

\* things repository: the rows of a batch are inserted together
thingsSave(clients) ==
    [id \in DOMAIN things \cup {clients[i].id : i \in 1..Len(clients)} |->
        IF id \in DOMAIN things THEN things[id]
        ELSE LET c == clients[CHOOSE i \in 1..Len(clients) : clients[i].id = id]
             IN  [status |-> c.status, owner |-> c.owner, secret |-> c.secret,
                  name |-> c.name, tags |-> c.tags]]

\* an id of the batch is taken already
thingsConflict(clients) ==
    \/ \E i \in 1..Len(clients) : clients[i].id \in DOMAIN things
    \/ \E i, j \in 1..Len(clients) : i # j /\ clients[i].id = clients[j].id

ErrConflict == <<"ErrConflict">>

\* lines 230-253: one pass over the clients handed in, stopping at the first
\* error; n counts the ids the provider handed out
RECURSIVE prepareThings(_, _, _, _)
prepareThings(clis, userID, n, idFails) ==
    IF clis = <<>>
    THEN [clients |-> <<>>, n |-> n, calls |-> <<>>, err |-> NoErr]
    ELSE LET cli == Head(clis)
             needID == cli.id = ""
             n1 == IF needID THEN n + 1 ELSE n
             needKey == cli.secret = ""
             n2 == IF needKey THEN n1 + 1 ELSE n1
             ids == (IF needID THEN <<CallRes("ID", "", TRUE, ProvidedID(n1))>>
                     ELSE <<>>)
                    \o (IF needKey THEN <<CallRes("ID", "", TRUE, ProvidedID(n2))>>
                        ELSE <<>>)
             c == [id |-> IF needID THEN ProvidedID(n1) ELSE cli.id,
                   secret |-> IF needKey THEN ProvidedID(n2) ELSE cli.secret,
                   owner |-> IF cli.owner = "" THEN userID ELSE cli.owner,
                   status |-> cli.status, name |-> cli.name, tags |-> cli.tags]
             rest == prepareThings(Tail(clis), userID, n2, idFails)
         IN  IF idFails /\ (needID \/ needKey)
             THEN [clients |-> <<>>, n |-> n, calls |-> <<Call("ID", "", FALSE)>>,
                   err |-> ErrIDProvider]
             ELSE IF cli.status # DisabledStatus /\ cli.status # EnabledStatus
             THEN [clients |-> <<>>, n |-> n2, calls |-> ids,
                   err |-> ErrInvalidStatus]
             ELSE [clients |-> IF rest.err = NoErr THEN <<c>> \o rest.clients
                               ELSE <<>>,
                   n |-> rest.n, calls |-> ids \o rest.calls, err |-> rest.err]

\* lines 224-256: identify, prepare every client, Save them all
CreateThings(token, clis, fault) ==
    LET cId == identifyCall(token, fault # "identify")
        pr == prepareThings(clis, Identity(token), nextID, fault = "id")
        cSave == Call("Save", pr.clients,
                      fault # "save" /\ ~thingsConflict(pr.clients))
    IN  IF fault = "identify"
        THEN [r |-> CFail(<<cId>>, ErrAuthentication), n |-> nextID]
        ELSE IF pr.err # NoErr
        THEN [r |-> CFail(<<cId>> \o pr.calls, pr.err), n |-> pr.n]
        ELSE IF fault = "save"
        THEN [r |-> CFail(<<cId>> \o pr.calls \o <<cSave>>, ErrRepository),
              n |-> pr.n]
        ELSE IF thingsConflict(pr.clients)
        THEN [r |-> CFail(<<cId>> \o pr.calls \o <<cSave>>, ErrConflict),
              n |-> pr.n]
        ELSE [r |-> CRet(thingsSave(pr.clients), users, cache,
                         <<cId>> \o pr.calls \o <<cSave>>, NoErr, pr.clients),
              n |-> pr.n]

\* identify, authorize edit on object, then the one repository write
thingsEdit(token, object, fn, client, written, fault) ==
    LET cId == identifyCall(token, fault # "identify")
        az == thingsAuthorize(userType, Identity(token), editPermission,
                              thingType, object, authzOutcome(fault))
        cUpd == Call(fn, client, fault # "update" /\ thingsHas(client.id))
    IN  IF fault = "identify" THEN CFail(<<cId>>, ErrAuthentication)
        ELSE IF az.err # NoErr THEN CFail(<<cId, az.call>>, az.err)
        ELSE IF fault = "update"
        THEN CFail(<<cId, az.call, cUpd>>, ErrRepository)
        ELSE IF ~thingsHas(client.id)
        THEN CFail(<<cId, az.call, cUpd>>, ErrNotFound)
        ELSE CRet(written, users, cache, <<cId, az.call, cUpd>>, NoErr, client)

\* variant: the record is updated before the grant is asked for
ThingsUpdateClientWriteFirst(token, cli, fault) ==
    LET client == [id |-> cli.id, name |-> cli.name,
                   updatedBy |-> Identity(token)]
        cId == identifyCall(token, fault # "identify")
        az == thingsAuthorize(userType, Identity(token), editPermission,
                              thingType, cli.id, authzOutcome(fault))
        cUpd == Call("Update", client, thingsHas(cli.id))
    IN  IF fault = "identify" THEN CFail(<<cId>>, ErrAuthentication)
        ELSE IF ~thingsHas(cli.id) THEN CFail(<<cId, cUpd>>, ErrNotFound)
        ELSE CRet([things EXCEPT ![cli.id].name = cli.name], users, cache,
                  <<cId, cUpd, az.call>>, az.err, client)

\* lines 320-338
ThingsUpdateClient(token, cli, fault) ==
    LET client == [id |-> cli.id, name |-> cli.name,
                   updatedBy |-> Identity(token)]
    IN  thingsEdit(token, cli.id, "Update", client,
                   [things EXCEPT ![cli.id].name = cli.name], fault)

\* lines 340-357
ThingsUpdateClientTags(token, cli, fault) ==
    LET client == [id |-> cli.id, tags |-> cli.tags,
                   updatedBy |-> Identity(token)]
    IN  thingsEdit(token, cli.id, "UpdateTags", client,
                   [things EXCEPT ![cli.id].tags = cli.tags], fault)

\* lines 359-379: the object of the authorize call is the caller's own id
ThingsUpdateClientSecret(token, id, key, fault) ==
    LET client == [id |-> id, secret |-> key, updatedBy |-> Identity(token),
                   status |-> EnabledStatus]
    IN  thingsEdit(token, Identity(token), "UpdateSecret", client,
                   [things EXCEPT ![id].secret = key], fault)

\* lines 381-400
ThingsUpdateClientOwner(token, cli, fault) ==
    LET client == [id |-> cli.id, owner |-> cli.owner,
                   updatedBy |-> Identity(token), status |-> EnabledStatus]
    IN  thingsEdit(token, cli.id, "UpdateOwner", client,
                   [things EXCEPT ![cli.id].owner = cli.owner], fault)

(* -------------------------- things: ViewClient ------------------------- *)
\* variant: the record is fetched before the grant is asked for
ThingsViewClientFetchFirst(token, id, fault) ==
    LET cId == identifyCall(token, fault # "identify")
        az == thingsAuthorize(userType, Identity(token), viewPermission,
                              thingType, id, authzOutcome(fault))
        cGet == Call("RetrieveByID", id, fault # "retrieve" /\ thingsHas(id))
    IN  IF fault = "identify" THEN CFail(<<cId>>, ErrAuthentication)
        ELSE IF fault = "retrieve" THEN CFail(<<cId, cGet>>, ErrRepository)
        ELSE IF ~thingsHas(id) THEN CFail(<<cId, cGet>>, ErrNotFound)
        ELSE IF az.err # NoErr
        THEN CFail(<<cId, cGet, az.call>>, Wrap(ErrNotFound, az.err))
        ELSE CRet(things, users, cache, <<cId, cGet, az.call>>, NoErr,
                  [id |-> id] @@ things[id])

\* lines 258-268
ThingsViewClient(token, id, fault) ==
    LET cId == identifyCall(token, fault # "identify")
        az == thingsAuthorize(userType, Identity(token), viewPermission,
                              thingType, id, authzOutcome(fault))
        cGet == Call("RetrieveByID", id, fault # "retrieve" /\ thingsHas(id))
    IN  IF fault = "identify" THEN CFail(<<cId>>, ErrAuthentication)
        ELSE IF az.err # NoErr
        THEN CFail(<<cId, az.call>>, Wrap(ErrNotFound, az.err))
        ELSE IF fault = "retrieve"
        THEN CFail(<<cId, az.call, cGet>>, ErrRepository)
        ELSE IF ~thingsHas(id) THEN CFail(<<cId, az.call, cGet>>, ErrNotFound)
        ELSE CRet(things, users, cache, <<cId, az.call, cGet>>, NoErr,
                  [id |-> id] @@ things[id])

ViewClientFaults == {"none", "identify", "authzDenied", "authzFail", "retrieve"}

(* -------------------------- things: Identify --------------------------- *)
\* variant: the cached id is not returned, storage is asked on every call
ThingsIdentifyUncached(key, fault) ==
    LET hit == fault # "cacheRead" /\ cacheHit(key)
        cID == CallRes("ID", key, hit, IF hit THEN cache[key] ELSE "")
        found == thingsBySecret(key)
        id == CHOOSE x \in found : TRUE
        cGet == Call("RetrieveBySecret", key, fault # "retrieve" /\ found # {})
        cSave == Call("Save", [key |-> key, id |-> id], fault # "save")
    IN  IF fault = "retrieve" THEN CFail(<<cID, cGet>>, ErrRepository)
        ELSE IF found = {} THEN CFail(<<cID, cGet>>, ErrNotFound)
        ELSE IF fault = "save" THEN CFail(<<cID, cGet, cSave>>, ErrCache)
        ELSE CRet(things, users, cacheSave(key, id), <<cID, cGet, cSave>>,
                  NoErr, id)

\* variant: a failed cache write is ignored and the id returned
ThingsIdentifySaveIgnored(key, fault) ==
    LET hit == fault # "cacheRead" /\ cacheHit(key)
        cID == CallRes("ID", key, hit, IF hit THEN cache[key] ELSE "")
        found == thingsBySecret(key)
        id == CHOOSE x \in found : TRUE
        cGet == Call("RetrieveBySecret", key, fault # "retrieve" /\ found # {})
        cSave == Call("Save", [key |-> key, id |-> id], fault # "save")
    IN  IF hit THEN CRet(things, users, cache, <<cID>>, NoErr, cache[key])
        ELSE IF fault = "retrieve" THEN CFail(<<cID, cGet>>, ErrRepository)
        ELSE IF found = {} THEN CFail(<<cID, cGet>>, ErrNotFound)
        ELSE CRet(things, users,
                  IF fault = "save" THEN cache ELSE cacheSave(key, id),
                  <<cID, cGet, cSave>>, NoErr, id)

\* lines 467-480: the cached id on a hit; on a miss the client of the secret
\* from storage, written to the cache
ThingsIdentify(key, fault) ==
    LET hit == fault # "cacheRead" /\ cacheHit(key)
        cID == CallRes("ID", key, hit, IF hit THEN cache[key] ELSE "")
        found == thingsBySecret(key)
        id == CHOOSE x \in found : TRUE
        cGet == Call("RetrieveBySecret", key, fault # "retrieve" /\ found # {})
        cSave == Call("Save", [key |-> key, id |-> id], fault # "save")
    IN  IF hit THEN CRet(things, users, cache, <<cID>>, NoErr, cache[key])
        ELSE IF fault = "retrieve" THEN CFail(<<cID, cGet>>, ErrRepository)
        ELSE IF found = {} THEN CFail(<<cID, cGet>>, ErrNotFound)
        ELSE IF fault = "save" THEN CFail(<<cID, cGet, cSave>>, ErrCache)
        ELSE CRet(things, users, cacheSave(key, id), <<cID, cGet, cSave>>,
                  NoErr, id)

(* ----------------------- things: ListClients --------------------------- *)
myKey == "mine"
listRelationKey == "c_list"

\* lines 276-315: the page the switch on err leaves; err is nil whenever
\* line 276 is reached, so the first case is the one taken
listClientsPage(userID, err, pm) ==
    IF err = NoErr
    THEN IF pm.sharedBy = myKey /\ pm.owner = myKey
         THEN [pm EXCEPT !.sharedBy = "", !.owner = ""]
         ELSE IF pm.sharedBy = myKey /\ pm.owner # myKey
         THEN [pm EXCEPT !.sharedBy = userID, !.owner = ""]
         ELSE IF pm.owner = myKey /\ pm.sharedBy # myKey
         THEN [pm EXCEPT !.owner = userID, !.sharedBy = ""]
         ELSE pm
    ELSE [(IF pm.sharedBy = myKey /\ pm.owner = myKey
           THEN [pm EXCEPT !.sharedBy = userID, !.owner = userID]
           ELSE IF pm.sharedBy = myKey /\ pm.owner # myKey
           THEN [pm EXCEPT !.sharedBy = userID, !.owner = ""]
           ELSE IF pm.owner = myKey /\ pm.sharedBy # myKey
           THEN [pm EXCEPT !.owner = userID, !.sharedBy = ""]
           ELSE [pm EXCEPT !.owner = userID])
          EXCEPT !.action = listRelationKey]

\* lines 270-318: identify, the switch, clients.RetrieveAll
ThingsListClients(token, pm, fault) ==
    LET cId == identifyCall(token, fault # "identify")
        userID == Identity(token)
        filter == listClientsPage(userID, NoErr, pm)
        cAll == Call("RetrieveAll", filter, fault # "retrieve")
    IN  IF fault = "identify" THEN CFail(<<cId>>, ErrAuthentication)
        ELSE IF fault = "retrieve" THEN CFail(<<cId, cAll>>, ErrRepository)
        ELSE CRet(things, users, cache, <<cId, cAll>>, NoErr, filter)

\* the Owner and SharedBy parameters of a page
PageOwners == {"", myKey, "u2"}
ListPages == [owner : PageOwners, sharedBy : PageOwners, action : {""}]
ListClientsFaults == {"none", "identify", "retrieve"}

(* ------ users: EnableClient / DisableClient / changeClientStatus ------- *)
usersHas(id) == id \in DOMAIN users

usersChangeStatus(c) == [users EXCEPT ![c.id].status = c.status]

\* clientRepo.IsOwner: a row with the id and the owner
isOwner(clientID, ownerID, ok) ==
    IF ~ok THEN Wrap(ErrAuthorization, ErrRepository)
    ELSE IF usersHas(clientID) /\ users[clientID].owner = ownerID THEN NoErr
    ELSE ErrAuthorization

usersChangeClientStatus(token, client, fault) ==
    LET cId == identifyCall(token, fault # "identify")
        tokenUserID == Identity(token)
        ownErr == isOwner(client.id, tokenUserID, fault # "isOwner")
        cOwn == Call("IsOwner", [id |-> client.id, owner |-> tokenUserID],
                     ownErr = NoErr)
        pre == IF tokenUserID # client.id THEN <<cId, cOwn>> ELSE <<cId>>
        cGet == Call("RetrieveByID", client.id,
                     fault # "retrieve" /\ usersHas(client.id))
        chg == [id |-> client.id, status |-> client.status,
                updatedBy |-> tokenUserID]
        cChg == Call("ChangeStatus", chg, fault # "change")
    IN  IF fault = "identify" THEN CFail(<<cId>>, ErrAuthentication)
        ELSE IF tokenUserID # client.id /\ ownErr # NoErr
        THEN CFail(pre, ownErr)
        ELSE IF fault = "retrieve" THEN CFail(pre \o <<cGet>>, ErrRepository)
        ELSE IF ~usersHas(client.id) THEN CFail(pre \o <<cGet>>, ErrNotFound)
        ELSE IF sameStatus(users[client.id].status, client.status)
        THEN CFail(pre \o <<cGet>>, ErrStatusAlreadyAssigned)
        ELSE IF fault = "change" THEN CFail(pre \o <<cGet, cChg>>, ErrRepository)
        ELSE CRet(things, usersChangeStatus(chg), cache,
                  pre \o <<cGet, cChg>>, NoErr, chg)

UsersEnableClient(token, id, fault) ==
    LET r == usersChangeClientStatus(token,
                 [id |-> id, status |-> EnabledStatus], fault)
    IN  IF r.err # NoErr THEN [r EXCEPT !.err = Wrap(ErrEnableClient, r.err)]
        ELSE r

UsersDisableClient(token, id, fault) ==
    LET r == usersChangeClientStatus(token,
                 [id |-> id, status |-> DisabledStatus], fault)
    IN  IF r.err # NoErr THEN [r EXCEPT !.err = Wrap(ErrDisableClient, r.err)]
        ELSE r

(* ------- users: UpdateClient, Tags, Identity and Owner ----------------- *)
\* variant: the ownership check is left out
usersEditGuardOpen(token, id, fault) ==
    [calls |-> <<identifyCall(token, fault # "identify")>>,
     err |-> IF fault = "identify" THEN ErrAuthentication ELSE NoErr]

\* part_002 lines 237-246 (and 260-269, 282-291, 386-395): Identify, then
\* isOwner unless the caller is the client itself
usersEditGuard(token, id, fault) ==
    LET cId == identifyCall(token, fault # "identify")
        tokenUserID == Identity(token)
        ownErr == isOwner(id, tokenUserID, fault # "isOwner")
        cOwn == Call("IsOwner", [id |-> id, owner |-> tokenUserID],
                     ownErr = NoErr)
    IN  IF fault = "identify"
        THEN [calls |-> <<cId>>, err |-> ErrAuthentication]
        ELSE IF tokenUserID # id
        THEN [calls |-> <<cId, cOwn>>, err |-> ownErr]
        ELSE [calls |-> <<cId>>, err |-> NoErr]

\* the repository's update of one column group of the row with the id
usersWrite(token, fn, c, written, fault, guard) ==
    LET cUpd == Call(fn, c, fault # "write" /\ usersHas(c.id))
    IN  IF guard.err # NoErr THEN CFail(guard.calls, guard.err)
        ELSE IF fault = "write"
        THEN CFail(guard.calls \o <<cUpd>>, ErrRepository)
        ELSE IF ~usersHas(c.id) THEN CFail(guard.calls \o <<cUpd>>, ErrNotFound)
        ELSE CRet(things, [users EXCEPT ![c.id] = written], cache,
                  guard.calls \o <<cUpd>>, NoErr, c)

\* part_002 lines 236-257
UsersUpdateClient(token, cli, fault) ==
    LET client == [id |-> cli.id, name |-> cli.name,
                   updatedBy |-> Identity(token)]
    IN  usersWrite(token, "Update", client,
                   IF usersHas(cli.id)
                   THEN [users[cli.id] EXCEPT !.name = cli.name] ELSE <<>>,
                   fault, usersEditGuard(token, cli.id, fault))

\* part_002 lines 259-279
UsersUpdateClientTags(token, cli, fault) ==
    LET client == [id |-> cli.id, tags |-> cli.tags,
                   updatedBy |-> Identity(token)]
    IN  usersWrite(token, "UpdateTags", client,
                   IF usersHas(cli.id)
                   THEN [users[cli.id] EXCEPT !.tags = cli.tags] ELSE <<>>,
                   fault, usersEditGuard(token, cli.id, fault))

\* part_002 lines 281-302
UsersUpdateClientIdentity(token, clientID, identity, fault) ==
    LET cli == [id |-> clientID, identity |-> identity,
                updatedBy |-> Identity(token)]
    IN  usersWrite(token, "UpdateIdentity", cli,
                   IF usersHas(clientID)
                   THEN [users[clientID] EXCEPT !.identity = identity]
                   ELSE <<>>,
                   fault, usersEditGuard(token, clientID, fault))

\* part_002 lines 385-403
UsersUpdateClientOwner(token, cli, fault) ==
    LET client == [id |-> cli.id, owner |-> cli.owner,
                   updatedBy |-> Identity(token)]
    IN  usersWrite(token, "UpdateOwner", client,
                   IF usersHas(cli.id)
                   THEN [users[cli.id] EXCEPT !.owner = cli.owner] ELSE <<>>,
                   fault, usersEditGuard(token, cli.id, fault))

UserEditFaults == {"none", "identify", "isOwner", "write"}
\* "u9" is no client of the repository
EditedUserIDs == {"u1", "u2", "u9"}
NewOwners == {"u1", "u2"}

NamedThingIDs == {"th1", "th9"}
NamedUserIDs == {"u1", "u2"}
SecretKeys == {"k1", "k9"}
ThingStatusFaults ==
    {"none", "identify", "authzDenied", "authzFail", "retrieve", "change",
     "remove"}
UserStatusFaults == {"none", "identify", "isOwner", "retrieve", "change"}
IdentifyFaults == {"none", "cacheRead", "retrieve", "save"}

(* ------ users: RegisterClient / UpdateClientSecret / ResetSecret ------- *)
UserRole == "user"
AdminRole == "admin"

\* hasher.Hash and hasher.Compare: the hash is not the secret, and equal
\* secrets have equal hashes
Hash(secret) == "hash(" \o secret \o ")"
Compare(plain, hashed) == Hash(plain) = hashed

\* variant: the secret goes to the repository as it came
HashIdentity(secret) == secret

\* passRegex.MatchString
WeakSecret == "w"
passRegexMatch(secret) == secret # WeakSecret /\ secret # ""

usersSave(c) ==
    [id \in DOMAIN users \cup {c.id} |->
        IF id \in DOMAIN users THEN users[id]
        ELSE [status |-> c.status, owner |-> c.owner, identity |-> c.identity,
              role |-> c.role, secret |-> c.secret, name |-> "", tags |-> ""]]

\* the row with the id or, when the client carries none, with the identity
usersUpdateSecret(c) ==
    [id \in DOMAIN users |->
        IF id = c.id \/ (c.id = "" /\ users[id].identity = c.identity)
        THEN [users[id] EXCEPT !.secret = c.secret]
        ELSE users[id]]

usersByIdentity(identity) ==
    {id \in DOMAIN users : users[id].identity = identity}

\* part_002 lines 88-122; the token may be empty and its error is dropped
UsersRegisterClient(token, cli, fault) ==
    LET identified == token # "" /\ fault # "identify"
        cId == identifyCall(token, identified)
        ownerID == IF identified THEN Identity(token) ELSE ""
        n == nextID + 1
        cID == CallRes("ID", "", fault # "id", ProvidedID(n))
        cHash == CallRes("Hash", cli.secret, fault # "hash", Hash(cli.secret))
        c == [id |-> ProvidedID(n),
              owner |-> IF cli.owner = "" /\ ownerID # "" THEN ownerID
                        ELSE cli.owner,
              identity |-> cli.identity, role |-> cli.role,
              status |-> cli.status, secret |-> Hash(cli.secret)]
        cSave == Call("Save", c, fault # "save")
    IN  IF fault = "id"
        THEN [r |-> CFail(<<cId, cID>>, ErrIDProvider), n |-> nextID]
        ELSE IF cli.secret = ""
        THEN [r |-> CFail(<<cId, cID>>, ErrMissingSecret), n |-> n]
        ELSE IF fault = "hash"
        THEN [r |-> CFail(<<cId, cID, cHash>>,
                          Wrap(ErrMalformedEntity, ErrHasher)), n |-> n]
        ELSE IF cli.status # DisabledStatus /\ cli.status # EnabledStatus
        THEN [r |-> CFail(<<cId, cID, cHash>>, ErrInvalidStatus), n |-> n]
        ELSE IF cli.role # UserRole /\ cli.role # AdminRole
        THEN [r |-> CFail(<<cId, cID, cHash>>, ErrInvalidRole), n |-> n]
        ELSE IF fault = "save"
        THEN [r |-> CFail(<<cId, cID, cHash, cSave>>, ErrRepository), n |-> n]
        ELSE [r |-> CRet(things, usersSave(c), cache,
                         <<cId, cID, cHash, cSave>>, NoErr, c),
              n |-> n]

\* part_002 lines 124-137, up to the comparison of the secrets
issueTokenErr(identity, secret) ==
    IF usersByIdentity(identity) = {} THEN ErrNotFound
    ELSE IF \A id \in usersByIdentity(identity) :
                ~Compare(secret, users[id].secret)
    THEN Wrap(ErrLogin, ErrHasher)
    ELSE NoErr

\* part_002 lines 354-377
UsersUpdateClientSecret(token, oldSecret, newSecret, fault) ==
    LET cId == identifyCall(token, fault # "identify")
        id == Identity(token)
        cGet == Call("RetrieveByID", id, fault # "retrieve" /\ usersHas(id))
        identity == IF usersHas(id) THEN users[id].identity ELSE ""
        loginErr == issueTokenErr(identity, oldSecret)
        cLogin == Call("RetrieveByIdentity", identity, loginErr # ErrNotFound)
        cHash == CallRes("Hash", newSecret, fault # "hash", Hash(newSecret))
        c == [id |-> id, identity |-> identity, secret |-> Hash(newSecret),
              updatedBy |-> id]
        cUpd == Call("UpdateSecret", c, fault # "update")
    IN  IF fault = "identify" THEN CFail(<<cId>>, ErrAuthentication)
        ELSE IF ~passRegexMatch(newSecret) THEN CFail(<<cId>>, ErrPasswordFormat)
        ELSE IF fault = "retrieve" THEN CFail(<<cId, cGet>>, ErrRepository)
        ELSE IF ~usersHas(id) THEN CFail(<<cId, cGet>>, ErrNotFound)
        ELSE IF loginErr # NoErr THEN CFail(<<cId, cGet, cLogin>>, loginErr)
        ELSE IF fault = "hash"
        THEN CFail(<<cId, cGet, cLogin, cHash>>, ErrHasher)
        ELSE IF fault = "update"
        THEN CFail(<<cId, cGet, cLogin, cHash, cUpd>>, ErrRepository)
        ELSE CRet(things, usersUpdateSecret(c), cache,
                  <<cId, cGet, cLogin, cHash, cUpd>>, NoErr, c)

\* part_002 lines 321-352
UsersResetSecret(resetToken, secret, fault) ==
    LET cId == identifyCall(resetToken, fault # "identify")
        id == Identity(resetToken)
        cGet == Call("RetrieveByID", id, fault # "retrieve" /\ usersHas(id))
        identity == IF usersHas(id) THEN users[id].identity ELSE ""
        cHash == CallRes("Hash", secret, fault # "hash", Hash(secret))
        c == [id |-> "", identity |-> identity, secret |-> Hash(secret),
              updatedBy |-> id]
        cUpd == Call("UpdateSecret", c, fault # "update")
    IN  IF fault = "identify"
        THEN CFail(<<cId>>, Wrap(ErrAuthentication, ErrTransport))
        ELSE IF fault = "retrieve" THEN CFail(<<cId, cGet>>, ErrRepository)
        ELSE IF ~usersHas(id) \/ identity = ""
        THEN CFail(<<cId, cGet>>, ErrNotFound)
        ELSE IF ~passRegexMatch(secret)
        THEN CFail(<<cId, cGet>>, ErrPasswordFormat)
        ELSE IF fault = "hash" THEN CFail(<<cId, cGet, cHash>>, ErrHasher)
        ELSE IF fault = "update"
        THEN CFail(<<cId, cGet, cHash, cUpd>>, ErrRepository)
        ELSE CRet(things, usersUpdateSecret(c), cache,
                  <<cId, cGet, cHash, cUpd>>, NoErr, "")

\* the clients handed to RegisterClient
RegDefault ==
    [owner |-> "", identity |-> "n@", secret |-> "s9", status |-> EnabledStatus,
     role |-> UserRole]
RegClients ==
    {RegDefault,
     [RegDefault EXCEPT !.owner = "u2", !.role = AdminRole,
                        !.status = DisabledStatus],
     [RegDefault EXCEPT !.status = AllStatus],
     [RegDefault EXCEPT !.role = "root"],
     [RegDefault EXCEPT !.secret = ""]}
RegisterFaults == {"none", "identify", "id", "hash", "save"}
RegisterTokens == {"", "t1"}
UserSecrets == {"s1", "s9", WeakSecret}
SecretFaults == {"none", "identify", "retrieve", "hash", "update"}

(* ------------------------------- actions -------------------------------- *)
Apply(op, in, r) ==
    /\ groups' = r.groups
    /\ policies' = r.policies
    /\ nextID' = r.nextID
    /\ last' = [op |-> op, in |-> in, calls |-> r.calls, err |-> r.err,
                out |-> r.out]
    /\ UNCHANGED <<things, users, cache, page, tree, inflight,
                   roles, events>>

DoCreateGroup ==
    /\ nextID < MaxGroups
    /\ \E token \in Tokens, gin \in CreateInputs, fault \in CreateFaults :
          Apply("CreateGroup", [token |-> token, g |-> gin],
                CreateGroup(token, gin, fault))

DoViewGroup ==
    \E token \in Tokens, id \in NamedGroupIDs, fault \in ReadFaults :
        Apply("ViewGroup", [token |-> token, id |-> id],
              ViewGroup(token, id, fault))

DoUpdateGroup ==
    \E token \in Tokens, id \in NamedGroupIDs, name \in GroupNames,
       fault \in UpdateFaults :
        \E g \in UpdateGroupValues(id, name) :
            Apply("UpdateGroup",
                  [token |-> token, id |-> id, name |-> name,
                   parent |-> g.parent, owner |-> g.owner],
                  UpdateGroup(token, g, fault))

DoEnableGroup ==
    \E token \in Tokens, id \in NamedGroupIDs, fault \in StatusFaults :
        Apply("EnableGroup",
              [token |-> token, id |-> id, status |-> EnabledStatus],
              EnableGroup(token, id, fault))

DoDisableGroup ==
    \E token \in Tokens, id \in NamedGroupIDs, fault \in StatusFaults :
        Apply("DisableGroup",
              [token |-> token, id |-> id, status |-> DisabledStatus],
              DisableGroup(token, id, fault))

\* the engine answers a list call only when the handler gets to issue it
DoListGroups ==
    \E token \in Tokens, memberKind \in {thingsKind, usersKind},
       memberID \in ThingIDs, fault \in ListGroupsFaults :
        \E allowed \in IF fault \in {"identify", "listObjects"} THEN {<<>>}
                       ELSE IF fault = "retrieve" THEN ShortGroupAnswers
                       ELSE GroupAnswers :
            \E cids \in IF memberKind # thingsKind
                            \/ fault \in {"identify", "listObjects", "listSubjects"}
                         THEN {<<>>}
                         ELSE IF fault = "retrieve" THEN ShortGroupAnswers
                         ELSE GroupAnswers :
                Apply("ListGroups",
                      [token |-> token, memberKind |-> memberKind,
                       memberID |-> memberID],
                      ListGroups(token, memberKind, memberID, allowed, cids, fault))

DoListMembers ==
    \E token \in Tokens, groupID \in AssignGroupIDs, permission \in Permissions,
       memberKind \in MemberKinds, fault \in ListMembersFaults :
        \E answer \in IF fault = "none" /\ memberKind \in {thingsKind, usersKind}
                      THEN MemberAnswers ELSE {<<>>} :
            Apply("ListMembers",
                  [token |-> token, groupID |-> groupID,
                   permission |-> permission, memberKind |-> memberKind],
                  ListMembers(token, groupID, permission, memberKind, answer, fault))

DoAssign ==
    \E token \in Tokens, groupID \in AssignGroupIDs, relation \in Relations,
       memberKind \in MemberKinds, fault \in AssignFaults :
        \E memberIDs \in IF fault = "none" /\ knownKind(memberKind)
                         THEN MemberLists ELSE {<<"m1">>} :
          \E at \in IF fault = "none" /\ knownKind(memberKind)
                    THEN 0..Len(memberIDs) ELSE {0} :
            Apply("Assign",
                  [token |-> token, groupID |-> groupID, relation |-> relation,
                   memberKind |-> memberKind, memberIDs |-> memberIDs],
                  Assign(token, groupID, relation, memberKind, memberIDs, fault, at))

DoUnassign ==
    \E token \in Tokens, groupID \in AssignGroupIDs, relation \in Relations,
       memberKind \in MemberKinds, fault \in AssignFaults :
        \E memberIDs \in IF fault = "none" /\ knownKind(memberKind)
                         THEN MemberLists ELSE {<<"m1">>} :
          \E at \in IF fault = "none" /\ knownKind(memberKind)
                    THEN 0..Len(memberIDs) ELSE {0} :
            Apply("Unassign",
                  [token |-> token, groupID |-> groupID, relation |-> relation,
                   memberKind |-> memberKind, memberIDs |-> memberIDs],
                  Unassign(token, groupID, relation, memberKind, memberIDs, fault, at))

ApplyC(op, in, r) ==
    /\ things' = r.things
    /\ users' = r.users
    /\ cache' = r.cache
    /\ last' = [op |-> op, in |-> in, calls |-> r.calls, err |-> r.err,
                out |-> r.out]
    /\ UNCHANGED <<groups, policies, nextID, page, tree, inflight,
                   roles, events>>

DoThingsEnableClient ==
    \E token \in EditTokens, id \in NamedThingIDs,
       fault \in ThingStatusFaults \ {"remove"} :
        ApplyC("things.EnableClient",
               [token |-> token, id |-> id, status |-> EnabledStatus],
               ThingsEnableClient(token, id, fault))

DoThingsDisableClient ==
    \E token \in EditTokens, id \in NamedThingIDs, fault \in ThingStatusFaults :
        ApplyC("things.DisableClient",
               [token |-> token, id |-> id, status |-> DisabledStatus],
               ThingsDisableClient(token, id, fault))

DoThingsIdentify ==
    \E key \in SecretKeys, fault \in IdentifyFaults :
        ApplyC("things.Identify", [key |-> key], ThingsIdentify(key, fault))

DoUsersEnableClient ==
    \E token \in ClientTokens, id \in NamedUserIDs, fault \in UserStatusFaults :
        ApplyC("users.EnableClient",
               [token |-> token, id |-> id, status |-> EnabledStatus],
               UsersEnableClient(token, id, fault))

DoUsersDisableClient ==
    \E token \in ClientTokens, id \in NamedUserIDs, fault \in UserStatusFaults :
        ApplyC("users.DisableClient",
               [token |-> token, id |-> id, status |-> DisabledStatus],
               UsersDisableClient(token, id, fault))

DoUsersUpdateClient ==
    \E token \in ClientTokens, id \in EditedUserIDs, fault \in UserEditFaults :
        ApplyC("users.UpdateClient", [token |-> token, id |-> id],
               UsersUpdateClient(token, [id |-> id, name |-> "n"], fault))

DoUsersUpdateClientTags ==
    \E token \in ClientTokens, id \in EditedUserIDs, fault \in UserEditFaults :
        ApplyC("users.UpdateClientTags", [token |-> token, id |-> id],
               UsersUpdateClientTags(token, [id |-> id, tags |-> "t"], fault))

DoUsersUpdateClientIdentity ==
    \E token \in ClientTokens, id \in EditedUserIDs, fault \in UserEditFaults :
        ApplyC("users.UpdateClientIdentity", [token |-> token, id |-> id],
               UsersUpdateClientIdentity(token, id, "new@", fault))

DoUsersUpdateClientOwner ==
    \E token \in ClientTokens, id \in EditedUserIDs, owner \in NewOwners,
       fault \in UserEditFaults :
        ApplyC("users.UpdateClientOwner",
               [token |-> token, id |-> id, owner |-> owner],
               UsersUpdateClientOwner(token, [id |-> id, owner |-> owner], fault))

DoUsersRegisterClient ==
    \E token \in RegisterTokens, cli \in RegClients, fault \in RegisterFaults :
        LET c == UsersRegisterClient(token, cli, fault)
        IN  /\ cli = RegDefault \/ fault = "none"
            /\ c.n <= MaxProvided
            /\ users' = c.r.users
            /\ nextID' = c.n
            /\ last' = [op |-> "users.RegisterClient",
                        in |-> [token |-> token, cli |-> cli],
                        calls |-> c.r.calls, err |-> c.r.err, out |-> c.r.out]
            /\ UNCHANGED <<groups, policies, things, cache, page, tree,
                           inflight,
                           roles, events>>

DoUsersUpdateClientSecret ==
    \E token \in ClientTokens, oldSecret \in UserSecrets,
       newSecret \in UserSecrets, fault \in SecretFaults :
        /\ (oldSecret = "s1" /\ newSecret = "s9") \/ fault = "none"
        /\ ApplyC("users.UpdateClientSecret",
                  [token |-> token, oldSecret |-> oldSecret,
                   newSecret |-> newSecret],
                  UsersUpdateClientSecret(token, oldSecret, newSecret, fault))

DoUsersResetSecret ==
    \E token \in ClientTokens, secret \in UserSecrets, fault \in SecretFaults :
        /\ secret = "s9" \/ fault = "none"
        /\ ApplyC("users.ResetSecret", [token |-> token, secret |-> secret],
                  UsersResetSecret(token, secret, fault))

(* ----------------- things: concurrent Identify calls -------------------- *)
MaxProcs == 2
Procs == 1..MaxProcs

\* a caller with no call in progress
Idle == [pc |-> "idle", op |-> "", key |-> "", got |-> "", out |-> "",
         err |-> NoErr, lookups |-> 0, writes |-> 0, changes |-> 0,
         removals |-> 0]

\* a caller enters Identify(key)
IdentifyBegin(p) ==
    /\ inflight[p].pc = "idle"
    /\ \E key \in SecretKeys :
          inflight' = [inflight EXCEPT ![p] = [Idle EXCEPT !.pc = "read",
                                                          !.key = key]]
    /\ UNCHANGED <<groups, policies, nextID, things, users, cache, last, page,
                   tree,
                   roles, events>>

\* lines 468-471: clientCache.ID; the cached id is returned on a hit
IdentifyRead(p) ==
    /\ inflight[p].pc = "read"
    /\ inflight' = [inflight EXCEPT ![p] =
                       IF cacheHit(@.key)
                       THEN [@ EXCEPT !.pc = "done",
                                      !.out = cache[inflight[p].key]]
                       ELSE [@ EXCEPT !.pc = "lookup"]]
    /\ UNCHANGED <<groups, policies, nextID, things, users, cache, last, page,
                   tree,
                   roles, events>>

\* lines 472-475: clients.RetrieveBySecret
IdentifyLookup(p) ==
    /\ inflight[p].pc = "lookup"
    /\ LET found == thingsBySecret(inflight[p].key)
       IN  inflight' = [inflight EXCEPT ![p] =
                           IF found = {}
                           THEN [@ EXCEPT !.pc = "done", !.err = ErrNotFound,
                                          !.lookups = @ + 1]
                           ELSE [@ EXCEPT !.pc = "save",
                                          !.got = CHOOSE x \in found : TRUE,
                                          !.lookups = @ + 1]]
    /\ UNCHANGED <<groups, policies, nextID, things, users, cache, last, page,
                   tree,
                   roles, events>>

\* variant: the id is returned without the cache write
IdentifySaveSkipped(p) ==
    /\ inflight[p].pc = "save"
    /\ inflight' = [inflight EXCEPT ![p] =
                       [@ EXCEPT !.pc = "done", !.out = inflight[p].got]]
    /\ UNCHANGED <<groups, policies, nextID, things, users, cache, last, page,
                   tree,
                   roles, events>>

\* lines 476-479: clientCache.Save(key, client.ID), then the id is returned
IdentifySave(p) ==
    /\ inflight[p].pc = "save"
    /\ cache' = cacheSave(inflight[p].key, inflight[p].got)
    /\ inflight' = [inflight EXCEPT ![p] =
                       [@ EXCEPT !.pc = "done", !.out = inflight[p].got,
                                 !.writes = @ + 1]]
    /\ UNCHANGED <<groups, policies, nextID, things, users, last, page, tree,
                   roles, events>>

\* the caller has its answer and may call again
IdentifyReturn(p) ==
    /\ inflight[p].pc = "done"
    /\ inflight' = [inflight EXCEPT ![p] = Idle]
    /\ UNCHANGED <<groups, policies, nextID, things, users, cache, last, page,
                   tree,
                   roles, events>>

\* Identify calls of several callers, interleaved at their calls to the
\* cache and to storage
NextIdentify ==
    \E p \in Procs :
        \/ IdentifyBegin(p)
        \/ IdentifyRead(p)
        \/ IdentifyLookup(p)
        \/ IdentifySave(p)
        \/ IdentifyReturn(p)

(* ------- things: DisableClient calls interleaved with Identify --------- *)
RaceThingIDs == {"th1"}

\* a caller enters DisableClient(token, id); lines 435-441: the token is
\* identified and the delete permission granted
DisableBegin(p) ==
    /\ inflight[p].pc = "idle"
    /\ \E id \in RaceThingIDs :
          inflight' = [inflight EXCEPT ![p] =
                          [Idle EXCEPT !.pc = "get", !.op = "DisableClient",
                                       !.key = id]]
    /\ UNCHANGED <<groups, policies, nextID, things, users, cache, last, page,
                   tree,
                   roles, events>>

\* variant: the stored status is not compared with the requested one
DisableRetrieveUncompared(p) ==
    /\ inflight[p].pc = "get"
    /\ inflight' = [inflight EXCEPT ![p] =
                       [@ EXCEPT !.pc = "change",
                                 !.got = things[inflight[p].key].status]]
    /\ UNCHANGED <<groups, policies, nextID, things, users, cache, last, page,
                   tree,
                   roles, events>>

\* lines 442-448: RetrieveByID and the comparison with the stored status
DisableRetrieve(p) ==
    /\ inflight[p].pc = "get"
    /\ inflight' = [inflight EXCEPT ![p] =
                       IF ~thingsHas(inflight[p].key)
                       THEN [@ EXCEPT !.pc = "done",
                                      !.err = Wrap(ErrDisableClient, ErrNotFound)]
                       ELSE IF sameStatus(things[inflight[p].key].status,
                                          DisabledStatus)
                       THEN [@ EXCEPT !.pc = "done",
                                      !.err = Wrap(ErrDisableClient,
                                                   ErrStatusAlreadyAssigned)]
                       ELSE [@ EXCEPT !.pc = "change",
                                      !.got = things[inflight[p].key].status]]
    /\ UNCHANGED <<groups, policies, nextID, things, users, cache, last, page,
                   tree,
                   roles, events>>

\* line 450: clients.ChangeStatus
DisableChange(p) ==
    /\ inflight[p].pc = "change"
    /\ things' = thingsChangeStatus([id |-> inflight[p].key,
                                     status |-> DisabledStatus])
    /\ inflight' = [inflight EXCEPT ![p] =
                       [@ EXCEPT !.pc = "remove",
                                 !.changes = inflight[p].changes + 1]]
    /\ UNCHANGED <<groups, policies, nextID, users, cache, last, page, tree,
                   roles, events>>

\* variant: the cache is left as it is
DisableRemoveSkipped(p) ==
    /\ inflight[p].pc = "remove"
    /\ inflight' = [inflight EXCEPT ![p] =
                       [@ EXCEPT !.pc = "done", !.out = inflight[p].key]]
    /\ UNCHANGED <<groups, policies, nextID, things, users, cache, last, page,
                   tree,
                   roles, events>>

\* lines 427-431: clientCache.Remove(client.ID), then the client is returned
DisableRemove(p) ==
    /\ inflight[p].pc = "remove"
    /\ cache' = cacheRemove(inflight[p].key)
    /\ inflight' = [inflight EXCEPT ![p] =
                       [@ EXCEPT !.pc = "done", !.out = inflight[p].key,
                                 !.removals = inflight[p].removals + 1]]
    /\ UNCHANGED <<groups, policies, nextID, things, users, last, page, tree,
                   roles, events>>

\* an Identify call that is in flight before any DisableClient has changed
\* the status
IdentifyBeginEarly(p) ==
    /\ \A id \in RaceThingIDs : things[id].status = EnabledStatus
    /\ IdentifyBegin(p)

NextRace ==
    \E p \in Procs :
        \/ IdentifyBeginEarly(p)
        \/ IdentifyRead(p)
        \/ IdentifyLookup(p)
        \/ IdentifySave(p)
        \/ DisableBegin(p)
        \/ DisableRetrieve(p)
        \/ DisableChange(p)
        \/ DisableRemove(p)

(* ------------- role events: RoleManagerEventStore ---------------------- *)
ErrPublish == <<"publish">>

\* lines 126-132: the constructor sets svcName, svc and Publisher; the
\* operationPrefix argument is not stored and the field keeps its zero value
NewRoleManagerEventStore(svcName, operationPrefix) ==
    [svcName |-> svcName, operationPrefix |-> ""]

\* the operations of roles.RoleManager the wrapper forwards
RoleReads ==
    {"RetrieveRole", "RetrieveAllRoles", "ListAvailableActions",
     "RoleListActions", "RoleCheckActionsExists", "RoleListMembers",
     "RoleCheckMembersExists"}
RoleWrites ==
    {"AddRole", "RemoveRole", "UpdateRoleName", "RoleAddActions",
     "RoleRemoveActions", "RoleRemoveAllActions", "RoleAddMembers",
     "RoleRemoveMembers", "RoleRemoveAllMembers", "RemoveMemberFromAllRoles"}
RoleOps == RoleReads \cup RoleWrites

\* the wrapped RoleManager: the error of an operation on the stored roles
rolesErr(op, a) ==
    IF op \in {"RetrieveAllRoles", "ListAvailableActions",
               "RemoveMemberFromAllRoles"} THEN NoErr
    ELSE IF op = "AddRole"
    THEN IF a.roleName \in DOMAIN roles THEN ErrConflict ELSE NoErr
    ELSE IF a.roleName \notin DOMAIN roles THEN ErrNotFound
    ELSE IF op = "UpdateRoleName" /\ a.newRoleName \in DOMAIN roles
    THEN ErrConflict
    ELSE NoErr

\* the wrapped RoleManager: the stored roles after a successful operation
rolesAfter(op, a) ==
    LET name == a.roleName
        edit(r) == [n \in DOMAIN roles |-> IF n = name THEN r ELSE roles[n]]
    IN  IF op = "AddRole"
        THEN [n \in DOMAIN roles \cup {name} |->
                IF n = name THEN [actions |-> a.actions, members |-> a.members]
                ELSE roles[n]]
        ELSE IF op = "RemoveRole"
        THEN [n \in DOMAIN roles \ {name} |-> roles[n]]
        ELSE IF op = "UpdateRoleName"
        THEN [n \in (DOMAIN roles \ {name}) \cup {a.newRoleName} |->
                IF n = a.newRoleName THEN roles[name] ELSE roles[n]]
        ELSE IF op = "RoleAddActions"
        THEN edit([roles[name] EXCEPT !.actions = @ \cup a.actions])
        ELSE IF op = "RoleRemoveActions"
        THEN edit([roles[name] EXCEPT !.actions = @ \ a.actions])
        ELSE IF op = "RoleRemoveAllActions"
        THEN edit([roles[name] EXCEPT !.actions = {}])
        ELSE IF op = "RoleAddMembers"
        THEN edit([roles[name] EXCEPT !.members = @ \cup a.members])
        ELSE IF op = "RoleRemoveMembers"
        THEN edit([roles[name] EXCEPT !.members = @ \ a.members])
        ELSE IF op = "RoleRemoveAllMembers"
        THEN edit([roles[name] EXCEPT !.members = {}])
        ELSE IF op = "RemoveMemberFromAllRoles"
        THEN [n \in DOMAIN roles |->
                [roles[n] EXCEPT !.members = @ \ {a.memberID}]]
        ELSE roles

\* the event of an operation: its type, the prefix field of the wrapper and
\* the arguments
roleEvent(rmes, op, a) ==
    [type |-> op, operationPrefix |-> rmes.operationPrefix, args |-> a]

\* variant: the event is published whatever the inner operation returns
RoleManagerEventStorePublishAlways(op, operationPrefix, a, fault) ==
    LET rmes == NewRoleManagerEventStore("groups", operationPrefix)
        innerErr == IF fault = "inner" THEN ErrRepository ELSE rolesErr(op, a)
        cIn == Call(op, a, innerErr = NoErr)
        e == roleEvent(rmes, op, a)
        cPub == Call("Publish", e, fault # "publish")
    IN  [roles |-> IF innerErr = NoErr THEN rolesAfter(op, a) ELSE roles,
         events |-> IF fault = "publish" THEN events ELSE Append(events, e),
         calls |-> <<cIn, cPub>>,
         err |-> IF innerErr # NoErr THEN innerErr
                 ELSE IF fault = "publish" THEN ErrPublish ELSE NoErr,
         out |-> ""]

\* lines 134-330: every method calls the wrapped operation, returns its
\* error, builds the event and returns the error of Publish
RoleManagerEventStore(op, operationPrefix, a, fault) ==
    LET rmes == NewRoleManagerEventStore("groups", operationPrefix)
        innerErr == IF fault = "inner" THEN ErrRepository ELSE rolesErr(op, a)
        cIn == Call(op, a, innerErr = NoErr)
        e == roleEvent(rmes, op, a)
        cPub == Call("Publish", e, fault # "publish")
    IN  IF innerErr # NoErr
        THEN [roles |-> roles, events |-> events, calls |-> <<cIn>>,
              err |-> innerErr, out |-> ""]
        ELSE IF fault = "publish"
        THEN [roles |-> rolesAfter(op, a), events |-> events,
              calls |-> <<cIn, cPub>>, err |-> ErrPublish, out |-> ""]
        ELSE [roles |-> rolesAfter(op, a), events |-> Append(events, e),
              calls |-> <<cIn, cPub>>, err |-> NoErr, out |-> ""]

OperationPrefixes == {"group.", "channel."}
RoleFaults == {"none", "inner", "publish"}
RoleArgs == [entityID |-> "g1", roleName |-> "r1", newRoleName |-> "r2",
             actions |-> {"a1"}, members |-> {"m1"}, memberID |-> "m1"]
Roles1 == [n \in {"r1"} |-> [actions |-> {"a1"}, members |-> {"m1", "m2"}]]

DoRoleManager ==
    \E op \in RoleOps, operationPrefix \in OperationPrefixes,
       fault \in RoleFaults :
        LET r == RoleManagerEventStore(op, operationPrefix, RoleArgs, fault)
        IN  /\ roles' = r.roles
            /\ events' = r.events
            /\ last' = [op |-> op,
                        in |-> [token |-> "t1",
                                operationPrefix |-> operationPrefix,
                                args |-> RoleArgs],
                        calls |-> r.calls, err |-> r.err, out |-> r.out]
            /\ UNCHANGED <<groups, policies, nextID, things, users, cache,
                           page, tree, inflight>>

(* ------------------- actions of the things service --------------------- *)
\* the clients handed to CreateThings: all defaults, all given, bad status
NewDefault ==
    [id |-> "", secret |-> "", owner |-> "", status |-> EnabledStatus,
     name |-> "", tags |-> ""]
NewGiven ==
    [id |-> "th7", secret |-> "k7", owner |-> "u2", status |-> DisabledStatus,
     name |-> "", tags |-> ""]
NewInvalid ==
    [id |-> "", secret |-> "k8", owner |-> "", status |-> AllStatus,
     name |-> "", tags |-> ""]
Batches ==
    {<<>>, <<NewDefault>>, <<NewGiven>>, <<NewInvalid>>,
     <<NewGiven, NewDefault>>, <<NewGiven, NewInvalid>>}
CreateThingsFaults == {"none", "identify", "id", "save"}
EditFaults == {"none", "identify", "authzDenied", "authzFail", "update"}

DoCreateThings ==
    \E token \in EditTokens, fault \in CreateThingsFaults :
        \E clis \in IF fault = "none" THEN Batches ELSE {<<NewDefault>>} :
            LET c == CreateThings(token, clis, fault)
            IN  /\ c.n <= MaxProvided
                /\ things' = c.r.things
                /\ nextID' = c.n
                /\ last' = [op |-> "things.CreateThings",
                            in |-> [token |-> token, clis |-> clis],
                            calls |-> c.r.calls, err |-> c.r.err, out |-> c.r.out]
                /\ UNCHANGED <<groups, policies, users, cache, page, tree,
                               inflight,
                               roles, events>>

DoThingsViewClient ==
    \E token \in EditTokens, id \in NamedThingIDs, fault \in ViewClientFaults :
        ApplyC("things.ViewClient", [token |-> token, id |-> id],
               ThingsViewClient(token, id, fault))

DoThingsListClients ==
    \E token \in ClientTokens, pm \in ListPages, fault \in ListClientsFaults :
        ApplyC("things.ListClients", [token |-> token, pm |-> pm],
               ThingsListClients(token, pm, fault))

DoThingsUpdateClient ==
    \E token \in EditTokens, id \in NamedThingIDs, fault \in EditFaults :
        /\ id = "th1" \/ fault = "none"
        /\ ApplyC("things.UpdateClient", [token |-> token, id |-> id],
                  ThingsUpdateClient(token, [id |-> id, name |-> "n"], fault))

DoThingsUpdateClientTags ==
    \E token \in EditTokens, id \in NamedThingIDs, fault \in EditFaults :
        /\ id = "th1" \/ fault = "none"
        /\ ApplyC("things.UpdateClientTags", [token |-> token, id |-> id],
                  ThingsUpdateClientTags(token, [id |-> id, tags |-> "tg"], fault))

DoThingsUpdateClientSecret ==
    \E token \in EditTokens, id \in NamedThingIDs, fault \in EditFaults :
        /\ id = "th1" \/ fault = "none"
        /\ ApplyC("things.UpdateClientSecret",
                  [token |-> token, id |-> id, key |-> "k2"],
                  ThingsUpdateClientSecret(token, id, "k2", fault))

DoThingsUpdateClientOwner ==
    \E token \in EditTokens, id \in NamedThingIDs, fault \in EditFaults :
        /\ id = "th1" \/ fault = "none"
        /\ ApplyC("things.UpdateClientOwner", [token |-> token, id |-> id],
                  ThingsUpdateClientOwner(token, [id |-> id, owner |-> "u2"], fault))

(* ------------------------------ the system ----------------------------- *)
\* the clients persisted before the run: u1 owns thing th1 and user u2
Things0 ==
    [id \in {"th1"} |->
        [status |-> EnabledStatus, owner |-> "u1", secret |-> "k1",
         name |-> "", tags |-> ""]]
Users0 ==
    [id \in {"u1", "u2"} |->
        [status |-> EnabledStatus, owner |-> IF id = "u2" THEN "u1" ELSE "",
         identity |-> id \o "@", role |-> UserRole,
         secret |-> Hash(IF id = "u1" THEN "s1" ELSE "s2"),
         name |-> "", tags |-> ""]]
\* tree assembly has not run
NoTree == [built |-> FALSE, roots |-> <<>>, children |-> <<>>]

NoLast == [op |-> "none", in |-> [token |-> ""], calls |-> <<>>,
           err |-> NoErr, out |-> ""]

Init ==
    /\ groups = [id \in AllGroupIDs |-> NoGroup]
    /\ policies = {}
    /\ nextID = 0
    /\ things = Things0
    /\ users = Users0
    /\ cache = <<>>
    /\ last = NoLast
    /\ page = <<>>
    /\ tree = NoTree
    /\ inflight = [p \in Procs |-> Idle]
    /\ roles = <<>>
    /\ events = <<>>

\* the group hierarchy: create, view, update, enable, disable
Next ==
    \/ DoCreateGroup
    \/ DoViewGroup
    \/ DoUpdateGroup
    \/ DoEnableGroup
    \/ DoDisableGroup

Spec == Init /\ [][Next]_vars

\* visibility: ListGroups over the answers of the policy engine
NextList == DoListGroups

SpecList == Init /\ [][NextList]_vars

\* membership: ListMembers, Assign, Unassign
NextMembers ==
    \/ DoListMembers
    \/ DoAssign
    \/ DoUnassign

SpecMembers == Init /\ [][NextMembers]_vars

\* status lifecycle of groups, things and users, over a repository that
\* already holds group g1 (created by u1, with its ownership tuple)
InitStatus ==
    /\ groups = [id \in AllGroupIDs |->
                    IF id = "g1"
                    THEN [owner |-> "u1", parent |-> "", status |-> EnabledStatus,
                          name |-> ""]
                    ELSE NoGroup]
    /\ policies = {Tuple(userType, "u1", ownerRelation, groupType, "g1")}
    /\ nextID = 1
    /\ things = Things0
    /\ users = Users0
    /\ cache = <<>>
    /\ last = NoLast
    /\ page = <<>>
    /\ tree = NoTree
    /\ inflight = [p \in Procs |-> Idle]
    /\ roles = <<>>
    /\ events = <<>>

NextStatus ==
    \/ DoEnableGroup
    \/ DoDisableGroup
    \/ DoThingsEnableClient
    \/ DoThingsDisableClient
    \/ DoThingsIdentify
    \/ DoUsersEnableClient
    \/ DoUsersDisableClient

SpecStatus == InitStatus /\ [][NextStatus]_vars

(* ============================== properties ============================= *)
\* positions in the calls of the last handler
Calls == last.calls
At(fn) == {i \in 1..Len(Calls) : Calls[i].fn = fn}
Issued(fn) == At(fn) # {}
Refused == \E i \in At("Authorize") : ~Calls[i].ok
Denied == \E i \in At("Authorize") : Calls[i].res = "denied"
AddedPolicies == [i \in 1..Cardinality(At("AddPolicy")) |->
                    Calls[CHOOSE j \in At("AddPolicy") :
                            Cardinality({k \in At("AddPolicy") : k < j}) = i - 1].req]

(* ------------------- api: buildGroupsResponseTree ---------------------- *)
MaxPage == 3
\* the ids of the groups of a page; "z" is a group that is on no page
PageIDs == {"a", "b", "c"}
PageParents == {"", "z"} \cup PageIDs
PageGroups == [id : PageIDs, parent : PageParents]
Pages == SeqsUpTo(PageGroups, MaxPage)

pageIDs(pg) == {pg[i].id : i \in 1..Len(pg)}

\* lines 174-182: the index keeps the first group of every id
groupsMap(pg) ==
    [id \in pageIDs(pg) |->
        pg[CHOOSE i \in 1..Len(pg) :
              pg[i].id = id /\ \A j \in 1..(i - 1) : pg[j].id # id]]

\* the orders in which a range over a map with these keys may run
Orders(S) == {q \in [1..Cardinality(S) -> S] : Range(q) = S}

\* variant: no group is appended to a bucket
parentsMapEmpty(pg, order) == [id \in pageIDs(pg) |-> <<>>]

\* lines 176-189: a bucket for every id of the page, and every group appended
\* to the bucket of its parent when there is one
parentsMap(pg, order) ==
    LET gm == groupsMap(pg)
    IN  [id \in pageIDs(pg) |->
            LET isChild(g) == gm[g].parent = id
            IN  SelectSeq(order, isChild)]

\* variant: the bucket looked up is the one of the group's own id
isRootOwnBucket(pm, group) ==
    group.id \notin DOMAIN pm \/ Len(pm[group.id]) = 0

\* variant: a group that names itself as its parent is a root as well
isRootOrSelf(pm, group) ==
    \/ group.parent \notin DOMAIN pm \/ Len(pm[group.parent]) = 0
    \/ group.parent = group.id

\* line 209: len(children) == 0 || !ok, children the bucket of group.Parent
isRoot(pm, group) ==
    group.parent \notin DOMAIN pm \/ Len(pm[group.parent]) = 0

\* lines 173-215: the roots in the order of the last loop; Children of every
\* group is its own bucket (lines 201-205), held by pointer
buildGroupsResponseTree(pg, order2, order4) ==
    LET gm == groupsMap(pg)
        pm == parentsMap(pg, order2)
        root(id) == isRoot(pm, gm[id])
    IN  [built |-> TRUE, roots |-> SelectSeq(order4, root), children |-> pm]

BuildTree ==
    /\ ~tree.built
    /\ \E order2 \in Orders(pageIDs(page)), order4 \in Orders(pageIDs(page)) :
            tree' = buildGroupsResponseTree(page, order2, order4)
    /\ UNCHANGED <<groups, policies, nextID, things, users, cache, last, page,
                   inflight,
                   roles, events>>

\* tree assembly over any page
InitTree ==
    /\ groups = [id \in AllGroupIDs |-> NoGroup]
    /\ policies = {}
    /\ nextID = 0
    /\ things = Things0
    /\ users = Users0
    /\ cache = <<>>
    /\ last = NoLast
    /\ page \in Pages
    /\ tree = NoTree
    /\ inflight = [p \in Procs |-> Idle]
    /\ roles = <<>>
    /\ events = <<>>

NextTree == BuildTree
SpecTree == InitTree /\ [][NextTree]_vars

\* the things service: create, the updates, the status changes and Identify
NextThings ==
    \/ DoCreateThings
    \/ DoThingsUpdateClient
    \/ DoThingsUpdateClientTags
    \/ DoThingsUpdateClientSecret
    \/ DoThingsUpdateClientOwner
    \/ DoThingsEnableClient
    \/ DoThingsDisableClient
    \/ DoThingsIdentify
SpecThings == Init /\ [][NextThings]_vars

SpecIdentify == Init /\ [][NextIdentify]_vars


\* DisableClient calls racing with Identify calls and with each other
SpecRace == Init /\ [][NextRace]_vars

\* one call of any handler, from a repository that is empty or holds group
\* g1, and a cache that is empty or holds the secret of th1
InitCall ==
    /\ \/ /\ groups = [id \in AllGroupIDs |-> NoGroup]
          /\ policies = {}
          /\ nextID = 0
       \/ /\ groups = [id \in AllGroupIDs |->
                          IF id = "g1"
                          THEN [owner |-> "u1", parent |-> "",
                                status |-> EnabledStatus, name |-> ""]
                          ELSE NoGroup]
          /\ policies = {Tuple(userType, "u1", ownerRelation, groupType, "g1")}
          /\ nextID = 1
    /\ things = Things0
    /\ users = Users0
    /\ cache \in {<<>>, [k \in {"k1"} |-> "th1"]}
    /\ last = NoLast
    /\ page = <<>>
    /\ tree = NoTree
    /\ inflight = [p \in Procs |-> Idle]
    /\ roles = <<>>
    /\ events = <<>>

FirstCall == last.op = "none"

NextCall ==
    \/ FirstCall /\ DoCreateGroup
    \/ FirstCall /\ DoViewGroup
    \/ FirstCall /\ DoUpdateGroup
    \/ FirstCall /\ DoEnableGroup
    \/ FirstCall /\ DoDisableGroup
    \/ FirstCall /\ DoListGroups
    \/ FirstCall /\ DoListMembers
    \/ FirstCall /\ DoAssign
    \/ FirstCall /\ DoUnassign
    \/ FirstCall /\ DoCreateThings
    \/ FirstCall /\ DoThingsViewClient
    \/ FirstCall /\ DoThingsListClients
    \/ FirstCall /\ DoThingsUpdateClient
    \/ FirstCall /\ DoThingsUpdateClientTags
    \/ FirstCall /\ DoThingsUpdateClientSecret
    \/ FirstCall /\ DoThingsUpdateClientOwner
    \/ FirstCall /\ DoThingsEnableClient
    \/ FirstCall /\ DoThingsDisableClient
    \/ FirstCall /\ DoThingsIdentify
    \/ FirstCall /\ DoUsersEnableClient
    \/ FirstCall /\ DoUsersDisableClient
    \/ FirstCall /\ DoUsersRegisterClient
    \/ FirstCall /\ DoUsersUpdateClientSecret
    \/ FirstCall /\ DoUsersResetSecret
SpecCall == InitCall /\ [][NextCall]_vars

\* one call of a handler of the users service that writes to a stored
\* client, from repositories that differ in who owns u1 and u2 and in the
\* status of u2
UserOwners == {"", "u1", "u2"}
InitUsers ==
    /\ groups = [id \in AllGroupIDs |-> NoGroup]
    /\ policies = {}
    /\ nextID = 0
    /\ things = Things0
    /\ \E o1 \in UserOwners, o2 \in UserOwners,
          st \in {EnabledStatus, DisabledStatus} :
          users = [Users0 EXCEPT !["u1"].owner = o1, !["u2"].owner = o2,
                                 !["u2"].status = st]
    /\ cache = <<>>
    /\ last = NoLast
    /\ page = <<>>
    /\ tree = NoTree
    /\ inflight = [p \in Procs |-> Idle]
    /\ roles = <<>>
    /\ events = <<>>
\* one call of a method of the wrapper, over a RoleManager with or without
\* the role r1 and a stream with or without an earlier event
InitRoles ==
    /\ groups = [id \in AllGroupIDs |-> NoGroup]
    /\ policies = {}
    /\ nextID = 0
    /\ things = Things0
    /\ users = Users0
    /\ cache = <<>>
    /\ last = NoLast
    /\ page = <<>>
    /\ tree = NoTree
    /\ inflight = [p \in Procs |-> Idle]
    /\ roles \in {<<>>, Roles1}
    /\ events \in {<<>>, <<[type |-> "AddRole", operationPrefix |-> "",
                            args |-> RoleArgs]>>}
NextRoles == FirstCall /\ DoRoleManager
SpecRoles == InitRoles /\ [][NextRoles]_vars

NextUsers ==
    \/ FirstCall /\ DoUsersUpdateClient
    \/ FirstCall /\ DoUsersUpdateClientTags
    \/ FirstCall /\ DoUsersUpdateClientIdentity
    \/ FirstCall /\ DoUsersUpdateClientOwner
    \/ FirstCall /\ DoUsersEnableClient
    \/ FirstCall /\ DoUsersDisableClient
SpecUsers == InitUsers /\ [][NextUsers]_vars

(* ---- C1 ---- *)
C1_Create == last.op = "CreateGroup" /\ last.in.g.parent # ""

C1_Order ==
    C1_Create =>
        /\ \A i \in At("Save") :
              \E j \in At("Authorize") :
                  /\ j < i
                  /\ Calls[j].ok
                  /\ Calls[j].req.perm = editPermission
                  /\ Calls[j].req.objType = groupType
                  /\ Calls[j].req.obj = last.in.g.parent
        /\ Refused => ~Issued("Save") /\ ~Issued("AddPolicy")

C1_Frame ==
    (last'.op = "CreateGroup" /\ last'.in.g.parent # ""
        /\ \E i \in 1..Len(last'.calls) :
              last'.calls[i].fn = "Authorize" /\ ~last'.calls[i].ok)
    => groups' = groups /\ policies' = policies

\* C1: CreateGroup with a parent obtains the grant of authorize(edit, parent)
\* before Save; when that authorize is denied or fails, no Save and no
\* AddPolicy is issued and the records and the tuple set are unchanged.
C1_ParentAuthorizedBeforeSave == [] C1_Order /\ [][C1_Frame]_vars

C1_Witness ==
    /\ C1_Create
    /\ Refused
    /\ Contains(last.err, errParentUnAuthz)

(* ---- C2 ---- *)
C2_FailedAdd(rel) ==
    \E i \in At("AddPolicy") : Calls[i].req.rel = rel /\ ~Calls[i].ok

C2_Saved ==
    \E i \in At("Save") :
        /\ Calls[i].ok
        /\ repoHas(Calls[i].req.id)
        /\ groups[Calls[i].req.id].owner = Calls[i].req.owner
        /\ groups[Calls[i].req.id].parent = Calls[i].req.parent

\* C2: CreateGroup is not atomic. When the ownership AddPolicy fails after
\* Save, an error is returned, the record stays and the parent-linkage
\* AddPolicy is not attempted; when the parent-linkage AddPolicy fails, the
\* record and the ownership tuple stay. No delete is ever issued.
C2_NoRollback ==
    last.op = "CreateGroup" =>
        /\ C2_FailedAdd(ownerRelation) =>
              /\ last.err # NoErr
              /\ C2_Saved
              /\ \A i \in At("AddPolicy") : Calls[i].req.rel # parentGroupRelation
        /\ C2_FailedAdd(parentGroupRelation) =>
              /\ last.err # NoErr
              /\ C2_Saved
              /\ \E i \in At("AddPolicy") :
                    /\ Calls[i].req.rel = ownerRelation
                    /\ Calls[i].ok
                    /\ Calls[i].req \in policies
        /\ \A i \in 1..Len(Calls) :
              Calls[i].fn \in {"Identify", "Authorize", "Save", "AddPolicy"}

C2_Witness ==
    /\ last.op = "CreateGroup"
    /\ C2_FailedAdd(parentGroupRelation)
    /\ C2_Saved

(* ---- C3 ---- *)
C3_Created == last.op = "CreateGroup" /\ last.err = NoErr

\* C3: a fully successful CreateGroup adds exactly one ownership tuple, whose
\* subject is the owner of the persisted group, and, iff a parent was set,
\* exactly one parent-linkage tuple (parent, parent_group, new group).
C3_OwnershipTupleOfPersistedOwner ==
    C3_Created =>
        LET id == last.out.id
            own == Tuple(userType, groups[id].owner, ownerRelation, groupType, id)
            par == Tuple(groupType, last.in.g.parent, parentGroupRelation,
                         groupType, id)
        IN  /\ AddedPolicies = IF last.in.g.parent # "" THEN <<own, par>>
                               ELSE <<own>>
            /\ Range(AddedPolicies) \subseteq policies

(* ---- C4 ---- *)
\* C4: a CreateGroup refused on its parent returns the parent-authorization
\* error; the other group operations return the plain authorization error on
\* denial, which does not carry the parent-authorization error.
C4_ParentErrorDistinct ==
    /\ (last.op = "CreateGroup" /\ Refused) =>
          /\ Contains(last.err, errParentUnAuthz)
          /\ last.err # ErrAuthorization
    /\ (last.op \in {"ViewGroup", "UpdateGroup", "EnableGroup", "DisableGroup"}
          /\ Denied) =>
          /\ last.err = ErrAuthorization
          /\ ~Contains(last.err, errParentUnAuthz)

C4_Witness == last.op = "CreateGroup" /\ Denied /\ last.err # NoErr

(* ---- C5 ---- *)
StatusOps ==
    {"EnableGroup", "DisableGroup", "things.EnableClient",
     "things.DisableClient", "users.EnableClient", "users.DisableClient"}

\* the status the record named by the handler run had before the run
C5_Same ==
    /\ last'.op \in StatusOps
    /\ LET id == last'.in.id
           st == last'.in.status
       IN  \/ last'.op \in {"EnableGroup", "DisableGroup"}
              /\ repoHas(id) /\ groups[id].status = st
           \/ last'.op \in {"things.EnableClient", "things.DisableClient"}
              /\ thingsHas(id) /\ things[id].status = st
           \/ last'.op \in {"users.EnableClient", "users.DisableClient"}
              /\ usersHas(id) /\ users[id].status = st

C5_NoChange ==
    /\ \A i \in 1..Len(last'.calls) : last'.calls[i].fn # "ChangeStatus"
    /\ groups' = groups /\ things' = things /\ users' = users

C5_Conflict == Contains(last'.err, ErrStatusAlreadyAssigned)

C5_Passed == \A i \in 1..Len(last'.calls) : last'.calls[i].ok

\* C5 as stated: a status change that requests the status the record already
\* has always yields the conflict error and never invokes ChangeStatus.
C5_AlwaysConflict == [][C5_Same => C5_Conflict /\ C5_NoChange]_vars

\* C5 amended: such a status change never invokes ChangeStatus and leaves the
\* record unchanged; it yields the conflict error whenever identification,
\* authorization and the retrieval of the record succeeded.
C5_SameStatusNoChange ==
    [][C5_Same => C5_NoChange /\ (C5_Passed => C5_Conflict)]_vars

C5_Witness ==
    /\ last.op = "things.DisableClient"
    /\ Contains(last.err, ErrStatusAlreadyAssigned)
    /\ things["th1"].status = DisabledStatus

(* ---- C6 ---- *)
\* the answer of the engine to the list call fn of the last handler
Answer(fn) == IF Issued(fn) THEN Calls[CHOOSE i \in At(fn) : TRUE].res ELSE <<>>
C6_Handed == last.op = "ListGroups" /\ Issued("RetrieveByIDs")
C6_IDs == Range(Calls[CHOOSE i \in At("RetrieveByIDs") : TRUE].req)
C6_Allowed == Range(Answer("ListAllObjects"))
C6_OfThing == Range(Answer("ListAllSubjects"))

\* C6: the ids ListGroups hands to the repository are, as a set, the caller's
\* view-allowed groups intersected with the groups allowed to view the thing
\* when memberKind is "things", and the caller's view-allowed groups for any
\* other memberKind; they never hold a group the caller may not view.
C6_CandidatesAreIntersection ==
    C6_Handed =>
        /\ \A i \in At("ListAllObjects") :
              Calls[i].req = listObjectsReq(userType, Identity(last.in.token), "",
                                            viewPermission, groupType)
        /\ \A i \in At("ListAllSubjects") :
              Calls[i].req = listSubjectsReq(groupType, "", viewPermission,
                                             thingType, last.in.memberID)
        /\ Issued("ListAllSubjects") <=> last.in.memberKind = thingsKind
        /\ C6_IDs = IF last.in.memberKind = thingsKind
                    THEN C6_Allowed \cap C6_OfThing ELSE C6_Allowed
        /\ C6_IDs \subseteq C6_Allowed

C6_Witness ==
    /\ C6_Handed
    /\ last.in.memberKind = thingsKind
    /\ C6_IDs # {}
    /\ C6_IDs # C6_Allowed
    /\ C6_IDs # C6_OfThing

(* ---- C7 ---- *)
C7_Listed == Issued("ListAllObjects") \/ Issued("ListAllSubjects")

\* C7: ListMembers returns members only under a granted authorize(view, group):
\* without it the authorization error is returned and no list query is issued.
C7_MembersNeedView ==
    last.op = "ListMembers" =>
        /\ Refused =>
              /\ Contains(last.err, ErrAuthorization)
              /\ ~C7_Listed
              /\ last.out = ""
        /\ Denied => last.err = ErrAuthorization
        /\ (C7_Listed \/ last.err = NoErr) =>
              /\ Calls[1].fn = "Authorize"
              /\ Calls[1].ok
              /\ Calls[1].req.perm = viewPermission
              /\ Calls[1].req.objType = groupType
              /\ Calls[1].req.obj = last.in.groupID
              /\ Calls[1].req.subj = last.in.token

C7_Witness == last.op = "ListMembers" /\ Denied /\ last.in.memberKind = usersKind

(* ---- C8 ---- *)
C8_Answered == last.op = "ListMembers" /\ last.err = NoErr

C8_Page(type) ==
    LET res == Calls[2].res
    IN  /\ last.out.total = Len(res)
        /\ last.out.limit = Len(res)
        /\ last.out.offset = 0
        /\ Len(last.out.members) = Len(res)
        /\ \A i \in 1..Len(res) :
              last.out.members[i] = [id |-> res[i], type |-> type]

\* C8: for "things" ListMembers queries the things of the group through the
\* fixed relation "group", whatever the permission argument; for "users" it
\* queries the users holding the caller-supplied permission on the group. The
\* page holds exactly the ids answered, tagged, total = limit = their number,
\* offset 0.
C8_MembersQueryAndPage ==
    C8_Answered =>
        /\ Len(Calls) = 2
        /\ last.in.memberKind \in {thingsKind, usersKind}
        /\ last.in.memberKind = thingsKind =>
              /\ Calls[2].fn = "ListAllObjects"
              /\ Calls[2].req = [subjType |-> groupType, subj |-> last.in.groupID,
                                 rel |-> groupRelation, perm |-> "",
                                 objType |-> thingType]
              /\ C8_Page(thingType)
        /\ last.in.memberKind = usersKind =>
              /\ Calls[2].fn = "ListAllSubjects"
              /\ Calls[2].req = [subjType |-> userType, rel |-> "",
                                 perm |-> last.in.permission,
                                 objType |-> groupType, obj |-> last.in.groupID]
              /\ C8_Page(userType)

C8_Witness ==
    /\ C8_Answered
    /\ last.in.memberKind = usersKind
    /\ last.in.permission = editPermission
    /\ last.out.total = 2

(* ---- C9 ---- *)
C9_Unsupported ==
    \/ last.op = "ListMembers" /\ last.in.memberKind \notin {thingsKind, usersKind}
    \/ last.op \in {"Assign", "Unassign"}
       /\ last.in.memberKind \notin {thingsKind, groupsKind, usersKind}

\* C9: an unsupported memberKind given to ListMembers, Assign or Unassign
\* fails with the invalid-kind error and issues no call at all.
C9_InvalidKindBeforeAnyCall ==
    C9_Unsupported =>
        /\ last.err \in {errInvalidMemberKind, errInvalidMemberKindList}
        /\ Calls = <<>>

(* ---- C10 ---- *)
C10_Writes == last.op \in {"Assign", "Unassign"} /\ Len(Calls) > 1

\* the i-th tuple call of Assign or Unassign is for the i-th member
C10_Tuple(i) == Calls[i + 1].req
C10_Member(i) == last.in.memberIDs[i]

\* C10 as stated: for every kind the member is the subject and the target
\* group the object of the tuple.
C10_MemberIsSubject ==
    C10_Writes =>
        \A i \in 1..(Len(Calls) - 1) :
            /\ C10_Tuple(i).subj = C10_Member(i)
            /\ C10_Tuple(i).obj = last.in.groupID

\* C10 amended: for "users" and "groups" the member is the subject and the
\* target group the object; for "things" the target group is the subject and
\* the member thing the object.
C10_TupleOrientation ==
    C10_Writes =>
        \A i \in 1..(Len(Calls) - 1) :
            /\ Calls[i + 1].fn = IF last.op = "Assign" THEN "AddPolicy"
                                 ELSE "DeletePolicy"
            /\ C10_Tuple(i).rel = last.in.relation
            /\ last.in.memberKind = thingsKind =>
                  C10_Tuple(i) = Tuple(groupType, last.in.groupID, last.in.relation,
                                       thingType, C10_Member(i))
            /\ last.in.memberKind = usersKind =>
                  C10_Tuple(i) = Tuple(userType, C10_Member(i), last.in.relation,
                                       groupType, last.in.groupID)
            /\ last.in.memberKind = groupsKind =>
                  C10_Tuple(i) = Tuple(groupType, C10_Member(i), last.in.relation,
                                       groupType, last.in.groupID)

C10_Witness ==
    /\ last.op = "Assign"
    /\ last.in.memberKind = thingsKind
    /\ last.in.memberIDs = <<"m1", "m2">>
    /\ last.err = NoErr
    /\ Tuple(groupType, "g1", "viewer", thingType, "m2") \in policies

(* ------------------------------- C11 ----------------------------------- *)
\* Assign or Unassign got its grant and knows the kind: the loop runs
C11_Loop ==
    /\ last.op \in {"Assign", "Unassign"}
    /\ Calls[1].ok
    /\ last.in.memberKind \in {thingsKind, groupsKind, usersKind}
C11_N == Len(Calls) - 1
C11_Failed == \E i \in 1..C11_N : ~Calls[i + 1].ok
\* the i-th call of the loop is for the i-th member
C11_ForMember(i) ==
    /\ Calls[i + 1].fn = IF last.op = "Assign" THEN "AddPolicy" ELSE "DeletePolicy"
    /\ last.in.memberIDs[i] \in {Calls[i + 1].req.subj, Calls[i + 1].req.obj}
C11_Succeeded == {Calls[i + 1].req : i \in {j \in 1..C11_N : Calls[j + 1].ok}}

\* one call per member, in the order of memberIDs, the failing one last
C11_Calls ==
    C11_Loop =>
        /\ C11_N <= Len(last.in.memberIDs)
        /\ \A i \in 1..C11_N : C11_ForMember(i) /\ (~Calls[i + 1].ok => i = C11_N)
        /\ C11_Failed => last.err # NoErr
        /\ ~C11_Failed => C11_N = Len(last.in.memberIDs) /\ last.err = NoErr

\* the tuples of the calls that succeeded are written (deleted), nothing else
C11_Effect ==
    C11_Loop' =>
        /\ policies' = IF last'.op = "Assign" THEN policies \cup C11_Succeeded'
                       ELSE policies \ C11_Succeeded'
        /\ groups' = groups

\* C11: Assign (Unassign) issues one AddPolicy (DeletePolicy) per member in
\* the order of memberIDs and stops at the first failing one: the tuples of
\* the members before it stay written (deleted), no call is made for the
\* members after it, nothing is rolled back, and an error is returned.
C11_FailFastPartial == [] C11_Calls /\ [][C11_Effect]_vars

\* Assign of three members whose second write failed: the first member's
\* tuple is written and the third member got no call
C11_Witness ==
    /\ C11_Loop /\ last.op = "Assign"
    /\ last.in.memberKind = usersKind
    /\ Len(last.in.memberIDs) = 3
    /\ C11_N = 2 /\ Calls[2].ok /\ ~Calls[3].ok
    /\ Calls[2].req \in policies
    /\ Calls[3].req \notin policies
    /\ last.err # NoErr

(* ------------------------------- C12 ----------------------------------- *)
C12_IDs == pageIDs(page)
C12_Parent(id) == page[CHOOSE i \in 1..Len(page) : page[i].id = id].parent
C12_Distinct ==
    \A i, j \in 1..Len(page) : page[i].id = page[j].id => i = j
RECURSIVE C12_Ancestors(_, _)
C12_Ancestors(id, n) ==
    IF n = 0 \/ id \notin C12_IDs THEN {}
    ELSE {C12_Parent(id)} \cup C12_Ancestors(C12_Parent(id), n - 1)
C12_Acyclic == \A id \in C12_IDs : id \notin C12_Ancestors(id, Len(page))
\* the groups found under id by following Children
RECURSIVE C12_Below(_, _)
C12_Below(id, n) ==
    IF n = 0 THEN {}
    ELSE Range(tree.children[id])
         \cup UNION {C12_Below(c, n - 1) : c \in Range(tree.children[id])}
C12_Once(q) == Len(q) = Cardinality(Range(q))

\* C12: for a page with distinct ids and acyclic parent references the roots
\* are exactly the groups whose parent is no group of the page, the Children
\* of every group are exactly the groups of the page whose parent it is,
\* nested to any depth, and the assembly always returns a forest.
C12_ForestOfPage ==
    (tree.built /\ C12_Distinct /\ C12_Acyclic) =>
        /\ Range(tree.roots) = {id \in C12_IDs : C12_Parent(id) \notin C12_IDs}
        /\ C12_Once(tree.roots)
        /\ DOMAIN tree.children = C12_IDs
        /\ \A id \in C12_IDs :
              /\ Range(tree.children[id]) = {g \in C12_IDs : C12_Parent(g) = id}
              /\ C12_Once(tree.children[id])
              /\ C12_Below(id, Len(page))
                    = {g \in C12_IDs : id \in C12_Ancestors(g, Len(page))}

\* a chain of three groups whose top ancestor is on no page
C12_Witness ==
    /\ tree.built
    /\ page = <<[id |-> "c", parent |-> "b"], [id |-> "a", parent |-> "z"],
                [id |-> "b", parent |-> "a"]>>
    /\ tree.roots = <<"a">>
    /\ tree.children["a"] = <<"b">> /\ tree.children["b"] = <<"c">>
    /\ tree.children["c"] = <<>>

(* ------------------------------- C13 ----------------------------------- *)
C13_Group(id) == groupsMap(page)[id]
C13_IsRootOfForest(id) == id \in Range(tree.roots)
\* the bucket looked up under key is absent or empty
C13_NoBucket(key) == key \notin DOMAIN tree.children \/ tree.children[key] = <<>>

\* C13 as stated: a group is a root exactly when the bucket under its own id
\* is absent or empty.
C13_RootByOwnBucket ==
    tree.built =>
        \A id \in pageIDs(page) : C13_IsRootOfForest(id) <=> C13_NoBucket(id)

\* C13 amended: a group is a root exactly when the bucket looked up under the
\* id of its parent is absent or empty, that is when its parent is no group
\* of the page.
C13_RootByParentBucket ==
    tree.built =>
        \A id \in pageIDs(page) :
            /\ C13_IsRootOfForest(id) <=> C13_NoBucket(C13_Group(id).parent)
            /\ C13_IsRootOfForest(id) <=> C13_Group(id).parent \notin pageIDs(page)

\* a root with a child: its own bucket is not empty, the one of its parent
\* is absent; the child has an empty bucket and is no root
C13_Witness ==
    /\ tree.built
    /\ page = <<[id |-> "a", parent |-> ""], [id |-> "b", parent |-> "a"]>>
    /\ tree.roots = <<"a">>
    /\ tree.children["a"] = <<"b">>
    /\ tree.children["b"] = <<>>

(* ------------------------------- C14 ----------------------------------- *)
C14_Identify == last.op = "things.Identify"
C14_Key == last.in.key
C14_Count(fn) == Cardinality(At(fn))
C14_DisableDone == last.op = "things.DisableClient" /\ last.err = NoErr

\* an Identify that found no entry for the secret and returned an id made
\* one storage lookup and one cache write of (secret -> id)
C14_Miss ==
    (C14_Identify' /\ C14_Key' \notin DOMAIN cache /\ last'.err = NoErr) =>
        /\ C14_Count("RetrieveBySecret")' = 1
        /\ C14_Count("Save")' = 1
        /\ \A i \in At("Save")' :
              last'.calls[i].req = [key |-> C14_Key', id |-> last'.out]
        /\ C14_Key' \in DOMAIN cache' /\ cache'[C14_Key'] = last'.out

\* the entry stays as written until a DisableClient succeeds
C14_Kept ==
    ~C14_DisableDone' =>
        \A k \in DOMAIN cache : k \in DOMAIN cache' /\ cache'[k] = cache[k]

\* an Identify that the cache answers returns the id of the entry, with no
\* storage lookup and no cache write
C14_Hit ==
    (C14_Identify' /\ C14_Key' \in DOMAIN cache /\ last'.calls[1].ok) =>
        /\ last'.err = NoErr /\ last'.out = cache[C14_Key']
        /\ C14_Count("RetrieveBySecret")' = 0
        /\ C14_Count("Save")' = 0
        /\ cache' = cache

\* C14: the first Identify(secret) on a cache without an entry for the secret
\* performs exactly one storage lookup and one cache write of (secret -> id);
\* a later Identify of the same secret, with no disable in between, returns
\* the same id with no storage lookup and no cache write.
C14_LookupOnceThenCached == [][C14_Miss /\ C14_Kept /\ C14_Hit]_vars

\* the later call: answered from the entry the first call wrote
C14_Witness ==
    /\ C14_Identify /\ C14_Key = "k1"
    /\ Len(Calls) = 1 /\ Calls[1].fn = "ID" /\ Calls[1].ok
    /\ last.err = NoErr /\ last.out = "th1"
    /\ cache = [k \in {"k1"} |-> "th1"]

(* ------------------------------- C15 ----------------------------------- *)
C15_Removals == At("Remove")
C15_Disable == last.op = "things.DisableClient"
C15_StatusChanged == \E i \in At("ChangeStatus") : Calls[i].ok
C15_EntriesOf(c, id) == {k \in DOMAIN c : c[k] = id}

\* a removal is issued only by a DisableClient whose status change went
\* through, once, for the id of the disabled client
C15_RemovalByDisable ==
    C15_Removals' # {} =>
        /\ C15_Disable' /\ C15_StatusChanged'
        /\ Cardinality(C15_Removals') = 1
        /\ \A i \in C15_Removals' : last'.calls[i].req = last'.in.id

\* a successful DisableClient issues its removal and the entries of the
\* client are gone, the others stay
C15_DisableEvicts ==
    (C15_Disable' /\ last'.err = NoErr) =>
        /\ Cardinality(C15_Removals') = 1
        /\ C15_EntriesOf(cache', last'.in.id) = {}
        /\ \A k \in DOMAIN cache \ C15_EntriesOf(cache, last'.in.id) :
              k \in DOMAIN cache' /\ cache'[k] = cache[k]

\* every other call but Identify leaves the cache as it is; a DisableClient
\* that is denied, finds no record or finds the status assigned issues no
\* removal
C15_OthersKeep ==
    /\ (last'.op # "things.Identify" /\ ~(C15_Disable' /\ last'.err = NoErr))
          => cache' = cache
    /\ (C15_Disable' /\ ~C15_StatusChanged') => C15_Removals' = {}
    /\ (\E k \in DOMAIN cache : k \notin DOMAIN cache')
          => (C15_Disable' /\ last'.err = NoErr)

\* C15: cache entries are removed only by a successful DisableClient, which
\* issues exactly one removal, for the id of the disabled client; a failed
\* DisableClient, EnableClient, UpdateClientSecret, UpdateClientOwner and
\* every other operation except Identify issue no removal and leave the
\* cache unchanged.
C15_EvictOnlyOnDisable ==
    [][C15_RemovalByDisable /\ C15_DisableEvicts /\ C15_OthersKeep]_vars

\* th1 was identified and then disabled: one removal, its entry is gone
C15_Witness ==
    /\ C15_Disable /\ last.in.id = "th1" /\ last.err = NoErr
    /\ Cardinality(C15_Removals) = 1
    /\ things["th1"].status = DisabledStatus
    /\ things["th1"].secret = "k2"
    /\ cache = <<>>

(* ------------------------------- C16 ----------------------------------- *)
C16_Returned(p) == inflight[p].pc = "done" /\ inflight[p].err = NoErr
C16_AllReturned == \A p \in Procs : inflight[p].pc \in {"idle", "done"}

\* C16: in every interleaving of concurrent Identify calls on the same
\* secret, each call makes at most its own storage lookup and cache write,
\* every call returns the same client id, and once all calls have returned
\* the cache maps the secret to that id.
C16_ConcurrentMissesAgree ==
    /\ \A p \in Procs : inflight[p].lookups <= 1 /\ inflight[p].writes <= 1
    /\ \A p, q \in Procs :
          (C16_Returned(p) /\ C16_Returned(q)
              /\ inflight[p].key = inflight[q].key)
          => inflight[p].out = inflight[q].out
    /\ C16_AllReturned =>
          \A p \in Procs :
              C16_Returned(p) =>
                  /\ cacheHit(inflight[p].key)
                  /\ cache[inflight[p].key] = inflight[p].out

\* two calls missed on the same secret: each looked storage up and wrote the
\* cache, both returned th1
C16_Witness ==
    /\ \A p \in {1, 2} :
          /\ C16_Returned(p) /\ inflight[p].key = "k1"
          /\ inflight[p].lookups = 1 /\ inflight[p].writes = 1
          /\ inflight[p].out = "th1"
    /\ cache["k1"] = "th1"

(* ------------------------------- C17 ----------------------------------- *)
C17_WriteCalls ==
    {"Save", "Update", "UpdateTags", "UpdateSecret", "UpdateOwner",
     "ChangeStatus", "AddPolicy", "DeletePolicy"}
C17_Mutating ==
    {"CreateGroup", "UpdateGroup", "EnableGroup", "DisableGroup", "Assign",
     "Unassign", "things.CreateThings", "things.UpdateClient",
     "things.UpdateClientTags", "things.UpdateClientSecret",
     "things.UpdateClientOwner", "things.EnableClient", "things.DisableClient"}
C17_Writes == {i \in 1..Len(Calls) : Calls[i].fn \in C17_WriteCalls}
C17_Granted(i) == Calls[i].fn = "Authorize" /\ Calls[i].ok
C17_GrantBefore(i) == \E j \in 1..(i - 1) : C17_Granted(j)

\* C17: every protected operation that mutates state calls authorize and
\* obtains a grant before its first repository write or tuple write.
C17_GrantBeforeFirstWrite ==
    last.op \in C17_Mutating => \A i \in C17_Writes : C17_GrantBefore(i)

\* the operations for which it holds: all but CreateThings and a CreateGroup
\* without a parent, which write after Identify alone
C17_Unchecked ==
    \/ last.op = "things.CreateThings"
    \/ last.op = "CreateGroup" /\ last.in.g.parent = ""
C17_GrantBeforeWriteElsewhere ==
    (last.op \in C17_Mutating /\ ~C17_Unchecked) =>
        \A i \in C17_Writes : C17_GrantBefore(i)
C17_IdentifyOnly ==
    (C17_Unchecked /\ C17_Writes # {}) =>
        /\ ~Issued("Authorize")
        /\ \A i \in C17_Writes :
              \E j \in 1..(i - 1) : Calls[j].fn = "Identify" /\ Calls[j].ok
\* C17 (as the code has it): operations on an existing entity, and
\* CreateGroup with a parent, obtain a grant before their first write;
\* CreateThings and CreateGroup without a parent write after resolving the
\* token only, with no Authorize request at all.
C17_GrantBeforeWriteExceptCreate ==
    C17_GrantBeforeWriteElsewhere /\ C17_IdentifyOnly
C17_Witness ==
    /\ last.op = "CreateGroup"
    /\ last.in.g.parent # ""
    /\ C17_Writes # {}
    /\ \E j \in 1..Len(Calls) : C17_Granted(j)
C17_WitnessCreateThings ==
    last.op = "things.CreateThings" /\ C17_Writes # {} /\ last.err = NoErr

(* ------------------------------- C18 ----------------------------------- *)
C18_AuthorizeFailed(l) ==
    \E i \in 1..Len(l.calls) : l.calls[i].fn = "Authorize" /\ ~l.calls[i].ok
C18_NoWrite(l) ==
    \A i \in 1..Len(l.calls) : l.calls[i].fn \notin C17_WriteCalls \cup {"Remove"}
C18_Abort ==
    C18_AuthorizeFailed(last') =>
        /\ last'.err # NoErr
        /\ C18_NoWrite(last')
        /\ UNCHANGED <<groups, policies, things, users, cache>>

\* C18: when the Authorize call of an operation is denied or fails, the
\* operation returns an error, issues no repository write, no AddPolicy or
\* DeletePolicy and no cache call, and leaves records, tuples and cache as
\* they were.
C18_AuthorizeErrorAborts == [][C18_Abort]_vars
C18_Witness ==
    /\ last.op = "Assign"
    /\ \E i \in 1..Len(Calls) : Calls[i].fn = "Authorize" /\ Calls[i].res = "fail"
    /\ last.err # NoErr

(* ------------------------------- C19 ----------------------------------- *)
C19_EngineFailed ==
    \E i \in 1..Len(Calls) : Calls[i].fn = "Authorize" /\ Calls[i].res = "fail"

\* C19: when the Authorize call itself fails, the error that authorize
\* returns is not the authorization error of a denial and does not match it.
C19_UpstreamDistinctFromDenial ==
    C19_EngineFailed =>
        /\ last.err # ErrAuthorization
        /\ ~Contains(last.err, ErrAuthorization)

\* what the code keeps apart: the failure carries the cause under the
\* authorization error, the denial is the authorization error alone
C19_FailureWrapsCause ==
    C19_EngineFailed =>
        /\ Contains(last.err, ErrAuthorization)
        /\ Contains(last.err, ErrTransport)
C19_DenialBare ==
    (\E i \in 1..Len(Calls) : Calls[i].fn = "Authorize" /\ Calls[i].res = "denied")
        => ~Contains(last.err, ErrTransport)

(* ------------------------------- C20 ----------------------------------- *)
C20_GroupOps ==
    {"ViewGroup", "UpdateGroup", "EnableGroup", "DisableGroup", "ListMembers",
     "Assign", "Unassign"}
C20_ThingOps ==
    {"things.UpdateClient", "things.UpdateClientTags",
     "things.UpdateClientSecret", "things.UpdateClientOwner",
     "things.EnableClient", "things.DisableClient"}
C20_AsksAt(l, i) == Len(l.calls) >= i /\ l.calls[i].fn = "Authorize"
C20_Fresh(l) ==
    /\ l.op \in C20_GroupOps => C20_AsksAt(l, 1)
    /\ (l.op \in C20_ThingOps /\ l.calls[1].ok) => C20_AsksAt(l, 2)
C20_GrantedRun(l) ==
    /\ l.err = NoErr
    /\ \E i \in 1..Len(l.calls) : l.calls[i].fn = "Authorize" /\ l.calls[i].ok
C20_Repeat ==
    /\ last'.op = last.op
    /\ last'.in = last.in
    /\ last.op \in C20_GroupOps \cup C20_ThingOps
    /\ C20_GrantedRun(last)
C20_Step ==
    /\ C20_Fresh(last')
    /\ (C20_Repeat /\ C18_AuthorizeFailed(last')) =>
           /\ Contains(last'.err, ErrAuthorization)
           /\ C18_NoWrite(last')
           /\ UNCHANGED <<groups, policies, things, users, cache>>

\* C20: every call of a protected operation issues its own Authorize
\* request, and a call that repeats a granted call of the same caller after
\* the permission is revoked is denied and changes nothing.
C20_NoGrantReuse == [][C20_Step]_vars
C20_Witness ==
    /\ last.op = "UpdateGroup"
    /\ last.in.id = "g1"
    /\ groups["g1"].name = last.in.name
    /\ groups["g1"].name # ""
    /\ C20_AsksAt(last, 1)
    /\ last.calls[1].res = "denied"
    /\ last.err = ErrAuthorization

(* ------------------------------- C21 ----------------------------------- *)
C21_Views == {"ViewGroup", "things.ViewClient"}
C21_Unauthorized == last.op \in C21_Views /\ C18_AuthorizeFailed(last)
C21_AnswerFor(id, fault) ==
    IF last.op = "ViewGroup"
    THEN [err |-> ViewGroup(last.in.token, id, fault).err,
          out |-> ViewGroup(last.in.token, id, fault).out]
    ELSE [err |-> ThingsViewClient(last.in.token, id, fault).err,
          out |-> ThingsViewClient(last.in.token, id, fault).out]
C21_IDs == IF last.op = "ViewGroup" THEN NamedGroupIDs ELSE NamedThingIDs
C21_Fault ==
    IF \E i \in 1..Len(Calls) : Calls[i].fn = "Authorize" /\ Calls[i].res = "fail"
    THEN "authzFail" ELSE "authzDenied"
\* the answer to an unauthorized caller is the same for every id, stored or
\* not, and the repository is not asked
C21_ExistenceHidden ==
    C21_Unauthorized =>
        /\ ~Issued("RetrieveByID")
        /\ last.out = ""
        /\ \A id \in C21_IDs :
              C21_AnswerFor(id, C21_Fault) = [err |-> last.err, out |-> last.out]

\* C21: for a caller without view permission ViewGroup and ViewClient
\* return the authorization error, the same outcome whether or not the
\* target exists, without consulting the repository.
C21_DeniedViewIsAuthorizationError ==
    /\ C21_ExistenceHidden
    /\ C21_Unauthorized => last.err[1] = ErrAuthorization[1]

\* C21 (as the code has it): ViewGroup returns the authorization error;
\* ViewClient returns the not-found error with the authorization error
\* nested in it; both answers are the same whether or not the target exists
\* and the repository is not consulted.
C21_DeniedViewHidesExistence ==
    /\ C21_ExistenceHidden
    /\ (C21_Unauthorized /\ last.op = "ViewGroup") =>
           last.err[1] = ErrAuthorization[1]
    /\ (C21_Unauthorized /\ last.op = "things.ViewClient") =>
           /\ last.err[1] = ErrNotFound[1]
           /\ Contains(last.err, ErrAuthorization)
C21_Witness ==
    /\ last.op = "things.ViewClient"
    /\ C18_AuthorizeFailed(last)
    /\ thingsHas(last.in.id)
    /\ \E id \in NamedThingIDs : ~thingsHas(id)

(* ------------------------------- C22 ----------------------------------- *)
C22_Update == last'.op = "UpdateGroup"
C22_AsksEdit ==
    /\ C20_AsksAt(last', 1)
    /\ last'.calls[1].req.perm = editPermission
    /\ last'.calls[1].req.objType = groupType
    /\ last'.calls[1].req.obj = last'.in.id
C22_Frame ==
    \A id \in DOMAIN groups :
        /\ groups'[id].parent = groups[id].parent
        /\ groups'[id].owner = groups[id].owner
        /\ groups'[id].status = groups[id].status
        /\ id # last'.in.id => groups'[id] = groups[id]
C22_Written ==
    last'.err = NoErr => groups'[last'.in.id].name = last'.in.name

C23_BadStatus(st) == st # EnabledStatus /\ st # DisabledStatus
C23_BadRole(role) == role # UserRole /\ role # AdminRole
C23_Invalid(l) ==
    \/ l.op = "CreateGroup" /\ C23_BadStatus(l.in.g.status)
    \/ /\ l.op = "things.CreateThings"
       /\ \E i \in 1..Len(l.in.clis) : C23_BadStatus(l.in.clis[i].status)
    \/ /\ l.op = "users.RegisterClient"
       /\ C23_BadStatus(l.in.cli.status) \/ C23_BadRole(l.in.cli.role)
C23_ValidationErrors == {ErrInvalidStatus, ErrInvalidRole, ErrMissingSecret}
\* what a collaborator called before the check may have failed with
C23_EarlierFailures ==
    {ErrAuthentication, ErrIDProvider, Wrap(ErrMalformedEntity, ErrHasher)}
C23_Rejected ==
    C23_Invalid(last') =>
        /\ last'.err # NoErr
        /\ last'.err \in C23_ValidationErrors \cup C23_EarlierFailures
        /\ C18_NoWrite(last')
        /\ UNCHANGED <<groups, policies, things, users, cache>>

\* C23: CreateGroup, CreateThings and RegisterClient given a status outside
\* {enabled, disabled} (RegisterClient also a role outside {user, admin})
\* return the validation error with no repository write and no tuple write;
\* one invalid client in a batch of CreateThings keeps every client of the
\* batch from being saved.
C23_ValidationBeforeSideEffects == [][C23_Rejected]_vars
C23_Witness ==
    /\ last.op = "things.CreateThings"
    /\ Len(last.in.clis) = 2
    /\ ~C23_BadStatus(last.in.clis[1].status)
    /\ C23_BadStatus(last.in.clis[2].status)
    /\ last.err = ErrInvalidStatus
    /\ last.in.clis[1].id \notin DOMAIN things
C23_WitnessRole ==
    /\ last.op = "users.RegisterClient"
    /\ C23_BadRole(last.in.cli.role)
    /\ last.err = ErrInvalidRole

(* ------------------------------- C24 ----------------------------------- *)
C24_Saved == Calls[CHOOSE i \in At("Save") : TRUE].req
C24_CreatedGroup == last.op = "CreateGroup" /\ last.err = NoErr
C24_CreatedThings ==
    last.op = "things.CreateThings" /\ last.err = NoErr /\ last.in.clis # <<>>
C24_Provided == {ProvidedID(k) : k \in 1..nextID}
C24_Owner(given, token) == IF given # "" THEN given ELSE Identity(token)
C24_GroupFresh ==
    C24_CreatedGroup =>
        /\ C24_Saved.id = GroupID(nextID)
        /\ C24_Saved.id # last.in.g.id
        /\ groups[C24_Saved.id].owner = C24_Owner(last.in.g.owner, last.in.token)
C24_ThingsOwner ==
    C24_CreatedThings =>
        \A i \in 1..Len(last.in.clis) :
            /\ C24_Saved[i].owner
                 = C24_Owner(last.in.clis[i].owner, last.in.token)
            /\ things[C24_Saved[i].id].owner = C24_Saved[i].owner

\* C24: every record created by CreateGroup or CreateThings gets an id the
\* id provider produced, whatever id the caller supplied, and the owner the
\* caller supplied or, when that is empty, the caller's identity.
C24_FreshIDWhateverSupplied ==
    /\ C24_GroupFresh
    /\ C24_ThingsOwner
    /\ C24_CreatedThings =>
           \A i \in 1..Len(last.in.clis) : C24_Saved[i].id \in C24_Provided

\* C24 (as the code has it): CreateGroup always assigns a provided id;
\* CreateThings assigns one only to a client handed in without an id and
\* keeps a caller-supplied id; the owner rule holds for both.
C24_FreshIDUnlessSuppliedThing ==
    /\ C24_GroupFresh
    /\ C24_ThingsOwner
    /\ C24_CreatedThings =>
           \A i \in 1..Len(last.in.clis) :
               IF last.in.clis[i].id # ""
               THEN C24_Saved[i].id = last.in.clis[i].id
               ELSE C24_Saved[i].id \in C24_Provided
C24_Witness ==
    /\ C24_CreatedThings
    /\ Len(last.in.clis) = 2
    /\ last.in.clis[1].id # ""
    /\ last.in.clis[2].id = ""
    /\ C24_Saved[1].id = last.in.clis[1].id
    /\ C24_Saved[2].id \in C24_Provided
C24_WitnessGroup ==
    C24_CreatedGroup /\ last.in.g.id = "g9" /\ last.in.g.owner = "u2"

(* ------------------------------- C25 ----------------------------------- *)
C25_Ops == {"things.EnableClient", "things.DisableClient"}
C25_DeleteGranted(l) ==
    \E i \in 1..Len(l.calls) :
        /\ l.calls[i].fn = "Authorize"
        /\ l.calls[i].ok
        /\ l.calls[i].req.perm = deletePermission
        /\ l.calls[i].req.objType = thingType
        /\ l.calls[i].req.obj = l.in.id
        /\ l.calls[i].req.subj = Identity(l.in.token)
C25_Step ==
    last'.op \in C25_Ops =>
        /\ (last'.err = NoErr \/ things' # things \/ cache' # cache)
               => C25_DeleteGranted(last')
        /\ C18_AuthorizeFailed(last') =>
               (last'.err # NoErr /\ things' = things /\ cache' = cache)

\* C25: EnableClient and DisableClient on a thing take effect only after a
\* grant of the delete permission on that thing, the same for both; when
\* the grant is refused the stored status and the cache stay as they were.
C25_StatusChangeNeedsDelete == [][C25_Step]_vars
C25_Witness ==
    /\ last.op = "things.DisableClient"
    /\ Denied
    /\ last.err # NoErr
    /\ thingsHas(last.in.id)
    /\ things[last.in.id].status = EnabledStatus
    /\ \E k \in DOMAIN cache : cache[k] = last.in.id
C25_WitnessEnable ==
    last.op = "things.EnableClient" /\ last.err = NoErr /\ C25_DeleteGranted(last)

(* ------------------------------- C26 ----------------------------------- *)
C26_TwoStates == {EnabledStatus, DisabledStatus}
C26_StatusValid ==
    /\ \A id \in DOMAIN groups : repoHas(id) => groups[id].status \in C26_TwoStates
    /\ \A id \in DOMAIN things : things[id].status \in C26_TwoStates
    /\ \A id \in DOMAIN users : users[id].status \in C26_TwoStates
C26_EnableOps == {"EnableGroup", "things.EnableClient", "users.EnableClient"}
C26_DisableOps == {"DisableGroup", "things.DisableClient", "users.DisableClient"}
\* the stored status of the entity the call names, before and after
C26_Before ==
    IF last'.op \in {"EnableGroup", "DisableGroup"} THEN groups[last'.in.id].status
    ELSE IF last'.op \in {"things.EnableClient", "things.DisableClient"}
    THEN things[last'.in.id].status
    ELSE users[last'.in.id].status
C26_After ==
    IF last'.op \in {"EnableGroup", "DisableGroup"} THEN groups'[last'.in.id].status
    ELSE IF last'.op \in {"things.EnableClient", "things.DisableClient"}
    THEN things'[last'.in.id].status
    ELSE users'[last'.in.id].status
C26_Succeeded ==
    /\ last'.op \in C26_EnableOps \cup C26_DisableOps
    /\ \E i \in 1..Len(last'.calls) :
          last'.calls[i].fn = "ChangeStatus" /\ last'.calls[i].ok
C26_Alternate ==
    C26_Succeeded =>
        IF last'.op \in C26_EnableOps
        THEN C26_Before = DisabledStatus /\ C26_After = EnabledStatus
        ELSE C26_Before = EnabledStatus /\ C26_After = DisabledStatus
\* nothing but a successful Enable or Disable changes a stored status
C26_OnlyByStatusOps ==
    \/ C26_Succeeded
    \/ /\ \A id \in DOMAIN groups :
             repoHas(id) => groups'[id].status = groups[id].status
       /\ \A id \in DOMAIN things : things'[id].status = things[id].status
       /\ \A id \in DOMAIN users : users'[id].status = users[id].status

\* C26: every stored status is enabled or disabled, and the successful
\* Enable and Disable operations on one entity alternate: Enable succeeds
\* only from disabled, Disable only from enabled.
C26_TwoStateMachine ==
    []C26_StatusValid /\ [][C26_Alternate /\ C26_OnlyByStatusOps]_vars
C26_Witness ==
    /\ last.op = "EnableGroup"
    /\ last.err = NoErr
    /\ groups[last.in.id].status = EnabledStatus
    /\ \E id \in DOMAIN things : things[id].status = DisabledStatus

(* ------------------------------- C28 ----------------------------------- *)
\* the secrets a call hands to the repository, and the raw ones of the input
C28_Stored(fn) == {Calls[i].req : i \in At(fn)}
C28_UsersHashed ==
    /\ last.op = "users.RegisterClient" =>
           \A c \in C28_Stored("Save") :
               c.secret = Hash(last.in.cli.secret) /\ c.secret # last.in.cli.secret
    /\ last.op = "users.UpdateClientSecret" =>
           \A c \in C28_Stored("UpdateSecret") :
               c.secret = Hash(last.in.newSecret) /\ c.secret # last.in.newSecret
    /\ last.op = "users.ResetSecret" =>
           \A c \in C28_Stored("UpdateSecret") :
               c.secret = Hash(last.in.secret) /\ c.secret # last.in.secret
C28_Raw(i) ==
    IF last.in.clis[i].secret # "" THEN {last.in.clis[i].secret}
    ELSE {ProvidedID(k) : k \in 1..nextID}
C28_ThingsHashed ==
    /\ last.op = "things.CreateThings" =>
           \A cs \in C28_Stored("Save") : \A i \in 1..Len(cs) :
               cs[i].secret \notin C28_Raw(i)
    /\ last.op = "things.UpdateClientSecret" =>
           \A c \in C28_Stored("UpdateSecret") :
               c.secret = Hash(last.in.key) /\ c.secret # last.in.key

\* C28: on every path that creates a client or changes its secret the
\* secret handed to the repository is the hash of the raw secret, never the
\* raw secret.
C28_OnlyHashStored == C28_UsersHashed /\ C28_ThingsHashed
\* what the things service hands over
C28_ThingsRaw ==
    /\ last.op = "things.CreateThings" =>
           \A cs \in C28_Stored("Save") : \A i \in 1..Len(cs) :
               cs[i].secret \in C28_Raw(i)
    /\ last.op = "things.UpdateClientSecret" =>
           \A c \in C28_Stored("UpdateSecret") : c.secret = last.in.key

(* ------------------------------- C29 ----------------------------------- *)
C29_Ops == C20_ThingOps
C29_ThingWrites ==
    {i \in 1..Len(Calls) :
        Calls[i].fn \in {"Update", "UpdateTags", "UpdateSecret", "UpdateOwner",
                         "ChangeStatus"}}
C29_GrantOn(i, id) ==
    \E j \in 1..(i - 1) :
        /\ Calls[j].fn = "Authorize"
        /\ Calls[j].ok
        /\ Calls[j].req.objType = thingType
        /\ Calls[j].req.obj = id

\* C29: in every thing-mutating operation the object of the Authorize call
\* is the id of the client the following repository write mutates.
C29_AuthorizeTargetsMutated ==
    last.op \in C29_Ops =>
        \A i \in C29_ThingWrites : C29_GrantOn(i, Calls[i].req.id)
\* it holds for every operation but the secret update, which asks about the
\* caller's own id
C29_AllButSecret ==
    (last.op \in C29_Ops /\ last.op # "things.UpdateClientSecret") =>
        \A i \in C29_ThingWrites : C29_GrantOn(i, Calls[i].req.id)
C29_SecretAsksAboutCaller ==
    last.op = "things.UpdateClientSecret" =>
        \A i \in C29_ThingWrites : C29_GrantOn(i, Identity(last.in.token))

(* ------------------------------- C30 ----------------------------------- *)
C30_Reads == {"ViewGroup", "ListGroups", "ListMembers"}
C30_Pure ==
    last'.op \in C30_Reads =>
        /\ C18_NoWrite(last')
        /\ UNCHANGED <<groups, policies, things, users, cache>>

\* C30: ViewGroup, ListGroups and ListMembers, whatever their outcome, issue
\* no repository write and no AddPolicy or DeletePolicy, and leave the
\* stored records and the tuple set as they were.
C30_ReadsHaveNoSideEffects == [][C30_Pure]_vars
C30_Witness ==
    /\ last.op = "ViewGroup"
    /\ last.err = NoErr
    /\ repoHas(last.in.id)
    /\ policies # {}
C30_WitnessList == last.op = "ListGroups" /\ last.err = NoErr
C30_WitnessMembers == last.op = "ListMembers" /\ last.err = NoErr

(* ------------------------------- C31 ----------------------------------- *)
C31_Quiet == \A p \in Procs : inflight[p].pc \in {"idle", "done"}
C31_Disabled(id) ==
    /\ things[id].status = DisabledStatus
    /\ \E p \in Procs : /\ inflight[p].op = "DisableClient"
                         /\ inflight[p].key = id
                         /\ inflight[p].pc = "done"
                         /\ inflight[p].err = NoErr
C31_Cached(id) == \E k \in DOMAIN cache : cache[k] = id

\* C31: once DisableClient has succeeded and every Identify call that was
\* in flight has returned, the cache holds no entry for the disabled client.
C31_NoEntryAfterDisable ==
    C31_Quiet => \A id \in RaceThingIDs : C31_Disabled(id) => ~C31_Cached(id)
\* without an Identify call in flight the removal does clear the entry
C31_ClearedAtRemoval ==
    \A p \in Procs :
        (inflight[p].op = "DisableClient" /\ inflight[p].pc = "done"
            /\ inflight[p].err = NoErr
            /\ \A q \in Procs : inflight[q].writes = 0)
        => ~C31_Cached(inflight[p].key)

(* ------------------------------- C32 ----------------------------------- *)
C32_Changed(id) ==
    {p \in Procs : /\ inflight[p].op = "DisableClient"
                   /\ inflight[p].key = id
                   /\ inflight[p].changes > 0}
C32_Evicted(id) ==
    {p \in Procs : /\ inflight[p].op = "DisableClient"
                   /\ inflight[p].key = id
                   /\ inflight[p].removals > 0}

\* C32 as stated: of two concurrent DisableClient calls on an enabled
\* client at most one reaches ChangeStatus and succeeds, the other gets the
\* conflict error, and the cache eviction happens once.
C32_OneChangeStatus ==
    \A id \in RaceThingIDs :
        /\ Cardinality(C32_Changed(id)) <= 1
        /\ Cardinality(C32_Evicted(id)) <= 1
\* C32, amended: a DisableClient call that reads the record after another
\* call's ChangeStatus gets the conflict error and reaches neither
\* ChangeStatus nor the cache removal; only calls that both read the record
\* before either has changed it can both change the status and evict.
C32_LateCallConflicts ==
    [][\A p \in Procs :
          (inflight[p].pc = "get" /\ inflight'[p].pc # "get"
              /\ things[inflight[p].key].status = DisabledStatus)
          => /\ inflight'[p].pc = "done"
             /\ Contains(inflight'[p].err, ErrStatusAlreadyAssigned)
             /\ inflight'[p].changes = 0
             /\ inflight'[p].removals = 0]_vars
\* one call has changed the status and evicted, a later one was refused
C32_Witness ==
    \E p, q \in Procs :
        /\ inflight[p].op = "DisableClient" /\ inflight[p].pc = "done"
        /\ inflight[p].changes = 1 /\ inflight[p].removals = 1
        /\ inflight[q].op = "DisableClient" /\ inflight[q].pc = "done"
        /\ inflight[q].key = inflight[p].key
        /\ Contains(inflight[q].err, ErrStatusAlreadyAssigned)
        /\ inflight[q].changes = 0

(* ------------------------------- C33 ----------------------------------- *)
C33_Parent(id) == groupsMap(page)[id].parent
\* where the parent references lead from id after n hops
RECURSIVE C33_Up(_, _)
C33_Up(id, n) ==
    IF n = 0 \/ id \notin pageIDs(page) THEN id
    ELSE C33_Up(C33_Parent(id), n - 1)
\* the parent references from id never leave the page: id lies on a cycle
\* (a self-parented group included) or below one
C33_Stuck(id) == C33_Up(id, Len(page)) \in pageIDs(page)
\* how often id occurs in the sequence q and, to depth n, below its members
RECURSIVE C33_Occurs(_, _, _, _)
C33_Occurs(q, i, id, n) ==
    IF i > Len(q) THEN 0
    ELSE (IF q[i] = id THEN 1 ELSE 0)
         + (IF n = 0 THEN 0
            ELSE C33_Occurs(tree.children[q[i]], 1, id, n - 1))
         + C33_Occurs(q, i + 1, id, n)
C33_InForest(id) == C33_Occurs(tree.roots, 1, id, Len(page))

\* C33 as stated: for every page, pages with a self-parented group or a
\* cycle of parent references included, every distinct id of the page
\* appears exactly once in the forest.
C33_EveryIDOnce ==
    tree.built => \A id \in pageIDs(page) : C33_InForest(id) = 1

\* C33, amended: an id appears exactly once in the forest when its parent
\* references lead out of the page, and not at all when they lead into a
\* cycle (a group that is its own parent included).
C33_OnceUnlessCyclic ==
    tree.built =>
        \A id \in pageIDs(page) :
            C33_InForest(id) = IF C33_Stuck(id) THEN 0 ELSE 1

\* a self-parented group and its child are dropped, an orphan is kept
C33_Witness ==
    /\ tree.built
    /\ page = <<[id |-> "a", parent |-> "a"], [id |-> "b", parent |-> "a"],
                [id |-> "c", parent |-> "z"]>>
    /\ tree.roots = <<"c">>
    /\ C33_InForest("a") = 0 /\ C33_InForest("b") = 0
    /\ C33_InForest("c") = 1
\* a cycle of two groups leaves the forest empty
C33_WitnessCycle ==
    /\ tree.built
    /\ page = <<[id |-> "a", parent |-> "b"], [id |-> "b", parent |-> "a"]>>
    /\ tree.roots = <<>>

(* ------------------------------- C34 ----------------------------------- *)
\* the tuples Assign writes for the arguments in
C34_Written(in) ==
    Range(assignPolicies(in.memberKind, in.groupID, in.relation, in.memberIDs))
C34_Deleted(l) ==
    {l.calls[i].req : i \in {j \in 1..Len(l.calls) : l.calls[j].fn = "DeletePolicy"}}
C34_Succeeded(l, op) == l.op = op /\ l.err = NoErr

\* C34: for every known kind, relation and member list, a successful
\* Assign adds its tuples, a successful Unassign deletes exactly the tuples
\* that Assign with the same arguments writes, and an Unassign that follows
\* the Assign with the same arguments leaves the tuple set that held before
\* the Assign whenever the tuples were absent then.
C34_UnassignUndoesAssign ==
    [][/\ C34_Succeeded(last', "Assign")
            => policies' = policies \cup C34_Written(last'.in)
       /\ C34_Succeeded(last', "Unassign")
            => /\ C34_Deleted(last') = C34_Written(last'.in)
               /\ policies' = policies \ C34_Written(last'.in)
       /\ (C34_Succeeded(last, "Assign") /\ C34_Succeeded(last', "Unassign")
              /\ last'.in = last.in)
            => /\ policies' = policies \ Range(AddedPolicies)
               /\ \A before \in SUBSET policies :
                     (before \cap C34_Written(last.in) = {}
                        /\ policies = before \cup C34_Written(last.in))
                     => policies' = before]_vars

\* Unassign has just deleted the tuples of two things and the set is the
\* initial, empty one again
C34_Witness ==
    /\ C34_Succeeded(last, "Unassign")
    /\ last.in.memberKind = thingsKind
    /\ last.in.memberIDs = <<"m1", "m2">>
    /\ C34_Deleted(last) = {Tuple(groupType, "g1", "viewer", thingType, "m1"),
                            Tuple(groupType, "g1", "viewer", thingType, "m2")}
    /\ policies = {}
\* the tuples of two member groups, written and still in place
C34_WitnessAssigned ==
    /\ C34_Succeeded(last, "Assign")
    /\ last.in.memberKind = groupsKind
    /\ last.in.memberIDs = <<"m1", "m2">>
    /\ policies = C34_Written(last.in)

(* ------------------------------- C35 ----------------------------------- *)
C35_CallsOf(l, fn) == {i \in 1..Len(l.calls) : l.calls[i].fn = fn}
C35_Failed(l, fn) == \E i \in C35_CallsOf(l, fn) : ~l.calls[i].ok
C35_Succeeded(l, fn) == \E i \in C35_CallsOf(l, fn) : l.calls[i].ok

\* C35: Identify writes the cache only after a successful storage lookup;
\* when RetrieveBySecret fails the cache is unchanged and the error is
\* returned; when the cache write fails Identify returns an error and no
\* id although storage resolved the client.
C35_CacheWriteAfterLookup ==
    [][last'.op = "things.Identify" =>
          /\ \A i \in C35_CallsOf(last', "Save") :
                \E j \in C35_CallsOf(last', "RetrieveBySecret") :
                    j < i /\ last'.calls[j].ok
          /\ cache' # cache => C35_Succeeded(last', "Save")
          /\ C35_Failed(last', "RetrieveBySecret")
                => /\ cache' = cache
                   /\ last'.err \in {ErrRepository, ErrNotFound}
                   /\ last'.out = ""
                   /\ C35_CallsOf(last', "Save") = {}
          /\ C35_Failed(last', "Save")
                => /\ C35_Succeeded(last', "RetrieveBySecret")
                   /\ last'.err = ErrCache
                   /\ last'.out = ""
                   /\ cache' = cache]_vars

\* storage resolved the client of k1 and the cache write failed
C35_Witness ==
    /\ last.op = "things.Identify"
    /\ last.in.key = "k1"
    /\ C35_Succeeded(last, "RetrieveBySecret")
    /\ C35_Failed(last, "Save")
    /\ last.err = ErrCache /\ last.out = ""
    /\ ~cacheHit("k1")
\* the lookup failed on a stored secret
C35_WitnessLookup ==
    /\ last.op = "things.Identify"
    /\ last.in.key = "k1"
    /\ C35_Failed(last, "RetrieveBySecret")
    /\ last.err = ErrRepository
    /\ ~cacheHit("k1")

(* ------------------------------- C36 ----------------------------------- *)
C36_Disable(l) == l.op = "things.DisableClient"
C36_RemoveFailed(l) ==
    \E i \in 1..Len(l.calls) : l.calls[i].fn = "Remove" /\ ~l.calls[i].ok
C36_Loaded(l) ==
    \E i \in 1..Len(l.calls) : l.calls[i].fn = "RetrieveByID" /\ l.calls[i].ok
C36_Issues(l, fn) == \E i \in 1..Len(l.calls) : l.calls[i].fn = fn

\* C36: when the cache removal inside DisableClient fails the client stays
\* disabled in storage, the cache keeps its entries, and the call returns
\* an error; a DisableClient on a client that is disabled already gets the
\* conflict error and attempts neither ChangeStatus nor the removal.
C36_FailedRemovalNotRolledBack ==
    [][C36_Disable(last') =>
          /\ C36_RemoveFailed(last')
                => /\ things[last'.in.id].status = EnabledStatus
                   /\ things'[last'.in.id].status = DisabledStatus
                   /\ cache' = cache
                   /\ last'.err = ErrCache
          /\ (C36_Loaded(last') /\ things[last'.in.id].status = DisabledStatus)
                => /\ Contains(last'.err, ErrStatusAlreadyAssigned)
                   /\ ~C36_Issues(last', "ChangeStatus")
                   /\ ~C36_Issues(last', "Remove")
                   /\ cache' = cache /\ things' = things]_vars

\* the removal failed: th1 is disabled and its secret is still cached
C36_Witness ==
    /\ C36_Disable(last) /\ last.in.id = "th1"
    /\ C36_RemoveFailed(last)
    /\ things["th1"].status = DisabledStatus
    /\ cacheHit("k1") /\ cache["k1"] = "th1"
\* the repeated call: refused with the conflict error, the entry remains
C36_WitnessRepeat ==
    /\ C36_Disable(last) /\ last.in.id = "th1"
    /\ Contains(last.err, ErrStatusAlreadyAssigned)
    /\ ~C36_Issues(last, "Remove")
    /\ things["th1"].status = DisabledStatus
    /\ cacheHit("k1") /\ cache["k1"] = "th1"

(* ------------------------------- C37 ----------------------------------- *)
C37_Caller == Identity(last.in.token)
\* the caller has the admin role
C37_Admin == usersHas(C37_Caller) /\ users[C37_Caller].role = AdminRole
C37_Retrievals ==
    {i \in 1..Len(last.calls) : last.calls[i].fn = "RetrieveAll"}

\* C37: for a caller that is not an admin, the filter ListClients hands to
\* the repository has Owner or SharedBy equal to the caller's id, for every
\* combination of the Owner and SharedBy parameters.
C37_FilterScopedToCaller ==
    (last.op = "things.ListClients" /\ ~C37_Admin) =>
        \A i \in C37_Retrievals :
            \/ last.calls[i].req.owner = C37_Caller
            \/ last.calls[i].req.sharedBy = C37_Caller
\* what the code does: the filter is scoped to the caller exactly when one
\* and only one of the two parameters is the key "mine"
C37_ScopedWhenOneIsMine ==
    last.op = "things.ListClients" =>
        \A i \in C37_Retrievals :
            LET req == last.calls[i].req
                pm == last.in.pm
            IN  /\ (pm.owner = myKey /\ pm.sharedBy = myKey)
                        => req.owner = "" /\ req.sharedBy = ""
                /\ (pm.owner # myKey /\ pm.sharedBy # myKey) => req = pm
                /\ ((pm.owner = myKey) # (pm.sharedBy = myKey))
                        => (req.owner = C37_Caller) # (req.sharedBy = C37_Caller)
                /\ req.action = ""

(* ------------------------------- C38 ----------------------------------- *)
C38_Ops == {"users.UpdateClient", "users.UpdateClientTags",
            "users.UpdateClientIdentity", "users.UpdateClientOwner",
            "users.EnableClient", "users.DisableClient"}
C38_WriteCalls == {"Update", "UpdateTags", "UpdateIdentity", "UpdateOwner",
                   "ChangeStatus"}
C38_Writes(l) == \E i \in 1..Len(l.calls) : l.calls[i].fn \in C38_WriteCalls
C38_OwnerChecked(l) ==
    \E i \in 1..Len(l.calls) : l.calls[i].fn = "IsOwner" /\ l.calls[i].ok

\* C38: UpdateClient, UpdateClientTags, UpdateClientIdentity,
\* UpdateClientOwner, EnableClient and DisableClient of the users service
\* write to client X only when the caller is X itself or IsOwner(X, caller)
\* has succeeded; otherwise they return the error and write nothing.
C38_WriteNeedsSelfOrOwner ==
    [][last'.op \in C38_Ops =>
          LET caller == Identity(last'.in.token)
              X == last'.in.id
              allowed == \/ caller = X
                         \/ /\ C38_OwnerChecked(last')
                            /\ usersHas(X) /\ users[X].owner = caller
          IN  /\ (C38_Writes(last') \/ users' # users) => allowed
              /\ ~allowed => /\ last'.err # NoErr
                             /\ Contains(last'.err, ErrAuthorization)
                                   \/ Contains(last'.err, ErrAuthentication)
                             /\ users' = users
              /\ \A id \in DOMAIN users : id # X => users'[id] = users[id]]_vars

\* the owner u1 has renamed its client u2
C38_Witness ==
    /\ last.op = "users.UpdateClient"
    /\ last.in.token = "t1" /\ last.in.id = "u2"
    /\ C38_OwnerChecked(last)
    /\ last.err = NoErr
    /\ users["u2"].name = "n"
\* u2 is refused on u1, which it does not own
C38_WitnessRefused ==
    /\ last.op = "users.UpdateClientOwner"
    /\ last.in.token = "t2" /\ last.in.id = "u1"
    /\ last.err = ErrAuthorization
    /\ ~C38_Writes(last)

(* ------------------------------- C39 ----------------------------------- *)
C39_Publishes(l) == {i \in 1..Len(l.calls) : l.calls[i].fn = "Publish"}
C39_InnerOK(l) == l.calls[1].fn = l.op /\ l.calls[1].ok

\* C39: every operation of the wrapper publishes exactly one event, and
\* only after the inner operation has succeeded; when the inner operation
\* fails no event is published, and when publishing fails the effect of
\* the inner operation is applied and the publish error is returned.
C39_OneEventAfterSuccess ==
    [][last'.op \in RoleOps =>
          /\ last'.calls[1].fn = last'.op
          /\ ~C39_InnerOK(last')
                => /\ C39_Publishes(last') = {}
                   /\ events' = events /\ roles' = roles
                   /\ last'.err \in {ErrRepository, ErrNotFound, ErrConflict}
          /\ C39_InnerOK(last')
                => /\ C39_Publishes(last') = {2}
                   /\ roles' = rolesAfter(last'.op, last'.in.args)
                   /\ last'.calls[2].req.type = last'.op
                   /\ IF last'.calls[2].ok
                      THEN /\ events' = Append(events, last'.calls[2].req)
                           /\ last'.err = NoErr
                      ELSE /\ events' = events
                           /\ last'.err = ErrPublish]_vars

\* AddRole has stored r1 and the publisher has refused the event
C39_Witness ==
    /\ last.op = "AddRole"
    /\ C39_InnerOK(last)
    /\ last.err = ErrPublish
    /\ "r1" \in DOMAIN roles
    /\ events = <<>>
\* RemoveRole on a missing role: no Publish call, the stream as it was
C39_WitnessInnerFailed ==
    /\ last.op = "RemoveRole"
    /\ last.err = ErrNotFound
    /\ C39_Publishes(last) = {}
    /\ Len(events) = 1
\* a published event
C39_WitnessPublished ==
    /\ last.op = "RoleRemoveMembers"
    /\ last.err = NoErr
    /\ Len(events) = 2 /\ events[2].type = "RoleRemoveMembers"
    /\ roles["r1"].members = {"m2"}

(* ------------------------------- C40 ----------------------------------- *)
\* C40: every event the wrapper publishes carries the operation prefix
\* that was passed to NewRoleManagerEventStore.
C40_EventCarriesPrefix ==
    last.op \in RoleOps =>
        \A i \in C39_Publishes(last) :
            last.calls[i].req.operationPrefix = last.in.operationPrefix
\* what the code does: the prefix of every event is the empty string
C40_PrefixEmpty ==
    last.op \in RoleOps =>
        \A i \in C39_Publishes(last) : last.calls[i].req.operationPrefix = ""

====
